---- MODULE Spec2Model ----
(***************************************************************************)
(* The method invocation pipeline of immutable-core                        *)
(* (lib/immutable-core-module.js, version 2: src/unnamed/part_015).        *)
(*                                                                         *)
(* Every call of a wrapped method is one record of the sequence `calls`;   *)
(* its position in the sequence is its identity (the moduleCallId).  Each  *)
(* action is one callback of the promise chain the wrapper builds, or one  *)
(* step of a method implementation (it calls another method, it resolves,  *)
(* it rejects).  JavaScript values are tagged records; objects are         *)
(* functions from keys to values and are compared by content.              *)
(***************************************************************************)
EXTENDS Integers, Sequences, FiniteSets, TLC

VARIABLES
    meta,       \* method.meta of every defined method: options and bind lists
    calls,      \* every call made so far, in the order the wrapper was entered
    cacheCalls, \* the cached path of the calls that took it: the key, the
                \* outcome of cacheClient.get, the calls of set and setex
    registry,   \* global.__immutable_core__: modules, binds, caches and
                \* defaultAllowOverride
    order,      \* history: the calls that settled, in the order they did
    log         \* the calls of logClient.log, in the order they were made

vars == <<meta, calls, cacheCalls, registry, order, log>>

-----------------------------------------------------------------------------
(* Bounds *)

\* calls (root, nested and extension calls together) one run may make
MaxCalls == 4

\* the operations on the registry before the first call
MaxOps == 4

\* the calls whose cache keys are compared
MaxKeys == 2

\* the length of the names, and of the signatures less one
MaxLen == 3

\* the definitions made under names
MaxNames == 2

-----------------------------------------------------------------------------
(* JavaScript values *)

Undefined == [t |-> "undefined"]
Null == [t |-> "null"]
Scalar(s) == [t |-> "scalar", v |-> s]
Obj(f) == [t |-> "object", f |-> f]
Arr(a) == [t |-> "array", a |-> a]
\* the string randomUniqueId() returns for the n-th call
Id(n) == [t |-> "id", n |-> n]
\* a string naming a method
Sig(m) == [t |-> "sig", m |-> m]

EmptyObj == Obj(<<>>)

\* typeof v === 'object' && v !== null
IsObject(v) == v.t \in {"object", "array"}

\* v !== undefined (if-defined)
defined(v) == v.t # "undefined"

\* JavaScript truthiness
Truthy(v) ==
    CASE v.t \in {"undefined", "null"} -> FALSE
      [] v.t = "scalar" -> v.v \notin {"false", "", "0"}
      [] OTHER -> TRUE

\* v[k]
Get(v, k) == IF v.t = "object" /\ k \in DOMAIN v.f THEN v.f[k] ELSE Undefined

\* v[k] = x
Put(v, k, x) ==
    Obj([j \in DOMAIN v.f \cup {k} |-> IF j = k THEN x ELSE v.f[j]])

Max(a, b) == IF a >= b THEN a ELSE b

\* lodash _.merge(object, source) for plain objects and arrays: recursive,
\* source keys win, undefined source values are skipped, a nested object of
\* the source is merged into an empty one when the destination has none
RECURSIVE merge(_, _)
mergeValue(objValue, srcValue) ==
    CASE srcValue.t = "undefined" -> objValue
      [] srcValue.t = "object" ->
            merge(IF objValue.t = "object" THEN objValue ELSE EmptyObj, srcValue)
      [] srcValue.t = "array" ->
            merge(IF objValue.t = "array" THEN objValue ELSE Arr(<<>>), srcValue)
      [] OTHER -> srcValue

merge(object, source) ==
    IF source.t = "array"
    THEN Arr([i \in 1..Max(Len(object.a), Len(source.a)) |->
            IF i > Len(source.a) THEN object.a[i]
            ELSE mergeValue(IF i <= Len(object.a) THEN object.a[i] ELSE Undefined,
                            source.a[i])])
    ELSE Obj([k \in DOMAIN object.f \cup DOMAIN source.f |->
            IF k \notin DOMAIN source.f THEN object.f[k]
            ELSE mergeValue(Get(object, k), source.f[k])])

-----------------------------------------------------------------------------
(* Methods and their meta data *)

Methods == {"T", "E1", "E2", "E3"}

\* valid bind types
bindTypes == {"after", "afterDetach", "before", "beforeDetach", "with", "withDetach"}

\* detach bind types
detachBindTypes == {"afterDetach", "beforeDetach", "withDetach"}

\* the booleans
True == Scalar("true")
False == Scalar("false")

\* an option: not given, true or false
Options == {Undefined, True, False}

\* !!v
Bool(v) == IF Truthy(v) THEN True ELSE False

\* a JSON schema of type object (the default type) with required properties
Schema(required) == [t |-> "object", required |-> required]

\* the schema option of a method defined without one: {}
NoSchema == [args |-> Undefined, return |-> Undefined]

\* the bind lists of a method with no extension bound to it
NoBinds ==
    [after |-> <<>>, afterDetach |-> <<>>, before |-> <<>>,
     beforeDetach |-> <<>>, with |-> <<>>, withDetach |-> <<>>]

\* methodMeta as method() builds it: the strictArgs option, the function
\* given as `method` (what the implementation does when it runs), empty
\* bind lists
methodMeta(strictArgs, method) ==
    [strictArgs |-> strictArgs, method |-> method, bind |-> NoBinds,
     cache |-> Undefined, logClient |-> Undefined,
     schema |-> NoSchema, validateArgs |-> True, validateReturn |-> True,
     freeze |-> True]

\* A variant of getValidOptions that sets no default.
\* OptionsResolved does not hold of it
getValidOptionsAsGiven(options, defaults) == options

\* getValidOptions with setDefaults: an option that is not defined gets
\* the global default
getValidOptions(options, defaults) ==
    [k \in DOMAIN options |->
        IF defined(options[k]) THEN options[k] ELSE defaults[k]]

\* method(): the schema option, the freeze option and the validation
\* options of the method, each from the options of the definition if
\* defined there (!!option), otherwise from the options of the module
methodOptions(mm, schema, options, moduleOptions) ==
    [mm EXCEPT
        !.schema = schema,
        !.freeze = IF defined(options.freeze) THEN Bool(options.freeze)
                   ELSE moduleOptions.freeze,
        !.validateArgs = IF defined(options.validateArgs)
                         THEN Bool(options.validateArgs)
                         ELSE moduleOptions.validateArgs,
        !.validateReturn = IF defined(options.validateReturn)
                           THEN Bool(options.validateReturn)
                           ELSE moduleOptions.validateReturn]

\* ajv.validate(schema.id, v): v is of the type of the schema (object) and
\* has the required properties
ajvValidate(schema, v) ==
    v.t = "object" /\ schema.required \subseteq DOMAIN v.f

\* validateArgs returns (TRUE) or throws (FALSE)
validateArgs(args, mm) ==
    IF ~defined(mm.schema.args) THEN TRUE
    ELSE IF ~Truthy(mm.validateArgs) THEN TRUE
    ELSE ajvValidate(mm.schema.args, args)

\* validateReturn returns (TRUE) or throws (FALSE)
validateReturn(ret, mm) ==
    IF ~defined(mm.schema.return) THEN TRUE
    ELSE IF ~Truthy(mm.validateReturn) THEN TRUE
    ELSE ajvValidate(mm.schema.return, ret)

\* runNotCached chains validateReturn to the promise of the implementation
\* under this condition (line 962)
validatesReturn(mm) == defined(mm.schema.return) /\ Truthy(mm.validateArgs)

\* A variant of bind() that puts bindMethod first on the list (unshift for
\* push).  StartedInOrder does not hold of it
bindFirst(mt, bindType, methodName, bindMethod) ==
    [mt EXCEPT ![methodName].bind[bindType] = <<bindMethod>> \o @]

\* bind(): push bindMethod on the target's list for bindType
bind(mt, bindType, methodName, bindMethod) ==
    [mt EXCEPT ![methodName].bind[bindType] = Append(@, bindMethod)]

\* a cache rule: expire is undefined when the rule has no expiry, keyParams
\* is undefined or the list of the args that make the key
CacheRule(expire, keyParams) ==
    [t |-> "object", expire |-> expire, keyParams |-> keyParams]

\* cache(): set the cache rule of a method (method.meta.cache = cache)
cache(mt, methodName, rule) == [mt EXCEPT ![methodName].cache = rule]

-----------------------------------------------------------------------------
(* Errors (rejection reasons) *)

NoError == [t |-> "none"]
\* the error call `by` rejects with; kind tells which statement made it
Error(kind, by) == [t |-> "error", kind |-> kind, by |-> by]

-----------------------------------------------------------------------------
(* Entering the wrapper: methodWrapperFunction up to getValidArgs *)

\* A variant of getValidArgs that never rejects: it normalises the args of a
\* strict method as it does those of a method with strictArgs disabled.
\* StrictArgsEnforced does not hold of it
getValidArgsNoStrict(args, bindSignature, bindType, m, id, mt) ==
    LET args1 == IF ~(args.t \in {"object", "array"}) THEN [t |-> "object", f |-> <<>>] ELSE args
        session0 == IF args1.t = "object" /\ "session" \in DOMAIN args1.f
                    THEN args1.f["session"] ELSE [t |-> "undefined"]
        session == IF session0.t = "object" THEN session0 ELSE [t |-> "object", f |-> <<>>]
        stack == IF "stack" \in DOMAIN session.f /\ session.f["stack"].t = "array"
                 THEN session.f["stack"] ELSE [t |-> "array", a |-> <<>>]
        stamps == [stack |-> stack, moduleCallId |-> [t |-> "id", n |-> id],
                   moduleCallSignature |-> [t |-> "sig", m |-> m]]
        session1 == [t |-> "object",
                     f |-> [k \in DOMAIN session.f \cup DOMAIN stamps |->
                              IF k \in DOMAIN stamps THEN stamps[k] ELSE session.f[k]]]
    IN  [ok |-> TRUE, err |-> [t |-> "none"],
         args |-> [t |-> "object",
                   f |-> [k \in DOMAIN args1.f \cup {"session"} |->
                            IF k = "session" THEN session1 ELSE args1.f[k]]],
         caller |-> args]

\* getValidArgs: the args the promise chain starts with, or the rejection.
\* `caller` is the caller's own object after the call (line 555 assigns
\* args.session on it before args is cloned).  The session is stamped with
\* the call's id and signature; moduleCallCreateTime, a time stamp, is left out
getValidArgs(args, bindSignature, bindType, m, id, mt) ==
    LET strict == mt[m].strictArgs
        badArgs == ~IsObject(args)
        args1 == IF badArgs THEN EmptyObj ELSE args
        badSession == ~IsObject(Get(args1, "session"))
        args2 == IF badSession THEN Put(args1, "session", EmptyObj) ELSE args1
        session == Get(args2, "session")
        stack == IF ~Truthy(Get(session, "stack")) THEN Arr(<<>>) ELSE Get(session, "stack")
        session1 == Put(Put(Put(session, "stack", stack),
                            "moduleCallId", Id(id)),
                        "moduleCallSignature", Sig(m))
    IN  IF badArgs /\ strict
        THEN [ok |-> FALSE, err |-> Error("invalid args", id), args |-> Undefined, caller |-> args]
        ELSE IF badSession /\ strict
        THEN [ok |-> FALSE, err |-> Error("invalid session", id), args |-> Undefined, caller |-> args]
        ELSE [ok |-> TRUE, err |-> NoError, args |-> Put(args2, "session", session1),
              caller |-> IF badArgs THEN args ELSE args2]

\* A variant of methodWrapperFunction that throws the error of a call it
\* does not accept instead of returning a rejected promise.
\* NoSynchronousThrow does not hold of it
methodWrapperFunctionThrows(id, m, args, nargs, bindSignature, bindType, parent, mt) ==
    LET tooMany == mt[m].strictArgs /\ nargs > 1 /\ bindType \notin bindTypes
        valid == getValidArgs(args, bindSignature, bindType, m, id, mt)
        err == IF tooMany THEN Error("too many arguments", id) ELSE valid.err
    IN  [method |-> m, bindSignature |-> bindSignature, bindType |-> bindType,
         parent |-> parent, nargs |-> nargs,
         passedArgs |-> args,
         callerArgs |-> IF tooMany THEN args ELSE valid.caller,
         args |-> IF err = NoError THEN valid.args ELSE Undefined,
         ctxArgs |-> Undefined,
         pc |-> IF err = NoError THEN "entered" ELSE "done",
         impl |-> "none", implArgs |-> Undefined, implRes |-> Undefined,
         implObjects |-> {}, frozen |-> {}, resObjects |-> {},
         res |-> Undefined, allErr |-> NoError,
         out |-> IF err = NoError THEN "pending" ELSE "thrown",
         outVal |-> err]

\* The objects a value is made of are named by where they were made:
\* "passed", the args object of the caller and the objects in it; "args",
\* the shallow clones getValidArgs makes of the args and of the session;
\* "implArgs", a deep clone of the args made for the implementation;
\* "implRes", the objects the implementation makes for its result; "res",
\* a deep clone of the result.
\* the objects of the args of a call after getValidArgs: what _.clone makes
\* and, below it, the objects of the caller
argsObjects == {"args", "passed"}

\* _.cloneDeep: the objects of the clone are new
cloneDeep(objects, new) == {new}

\* deepFreeze(args): every object of args is frozen
deepFreeze(objects) == objects

\* the record of a call: the wrapper entered with `nargs` positional
\* arguments; the call is rejected at once or waits for its first callback
methodWrapperFunction(id, m, args, nargs, bindSignature, bindType, parent, mt) ==
    LET tooMany == mt[m].strictArgs /\ nargs > 1 /\ bindType \notin bindTypes
        valid == getValidArgs(args, bindSignature, bindType, m, id, mt)
        err == IF tooMany THEN Error("too many arguments", id) ELSE valid.err
    IN  [method |-> m, bindSignature |-> bindSignature, bindType |-> bindType,
         parent |-> parent, nargs |-> nargs,
         passedArgs |-> args,
         callerArgs |-> IF tooMany THEN args ELSE valid.caller,
         args |-> IF err = NoError THEN valid.args ELSE Undefined,
         ctxArgs |-> Undefined,
         pc |-> IF err = NoError THEN "entered" ELSE "done",
         impl |-> "none", implArgs |-> Undefined, implRes |-> Undefined,
         implObjects |-> {}, frozen |-> {}, resObjects |-> {},
         res |-> Undefined, allErr |-> NoError,
         out |-> IF err = NoError THEN "pending" ELSE "rejected",
         outVal |-> err]

-----------------------------------------------------------------------------
(* The calls an extension stage makes and the results it awaits *)

Ids(cs) == 1..Len(cs)

\* the calls that call c made as bindType, in the order they were made
\* (the order of the bind list); bindType "" gives the calls c's
\* implementation made
Kids(cs, c, bindType) ==
    SelectSeq([i \in Ids(cs) |-> i],
              LAMBDA i: cs[i].parent = c /\ cs[i].bindType = bindType)

Range(seq) == {seq[i] : i \in DOMAIN seq}

\* _.map(list, method => (method)(args, signature, bindType)): the calls
\* appended to cs, every one entered with the same args object
callAll(cs, list, args, c, bindType, mt) ==
    cs \o [i \in 1..Len(list) |->
            methodWrapperFunction(Len(cs) + i, list[i], args, 3,
                                  cs[c].method, bindType, c, mt)]

\* A variant of allResolved that waits for no pending promise.
\* StagesInOrder does not hold of it
nonePending(cs, kids) == \A i \in Range(kids): cs[i].out # "rejected"

\* A variant of allResolved that takes a rejected promise for a resolved one.
\* BeforeRejectionStops does not hold of it
allSettled(cs, kids) == \A i \in Range(kids): cs[i].out # "pending"

\* every promise of Promise.all(kids) is resolved
allResolved(cs, kids) == \A i \in Range(kids): cs[i].out = "resolved"

\* A variant of results that lists the values in the order in which the
\* promises have settled (the order of the history, when one is kept).
\* MergeInRegistrationOrder does not hold of it
resultsAsSettled(cs, kids) ==
    LET pos(k) == IF \E p \in DOMAIN order.seq: order.seq[p] = k
                  THEN CHOOSE p \in DOMAIN order.seq: order.seq[p] = k
                  ELSE 0
        earlier(i) == {j \in DOMAIN kids:
                        \/ pos(kids[j]) < pos(kids[i])
                        \/ pos(kids[j]) = pos(kids[i]) /\ j < i}
    IN  [n \in DOMAIN kids |->
            cs[kids[CHOOSE i \in DOMAIN kids:
                        Cardinality(earlier(i)) = n - 1]].outVal]

\* the values Promise.all(kids) resolves with
results(cs, kids) == [i \in DOMAIN kids |-> cs[kids[i]].outVal]

\* Promise.all over promises some of which are rejected already: it
\* rejects with the first of them in list order
firstRejected(cs, kids) ==
    LET rejected == {i \in DOMAIN kids: cs[kids[i]].out = "rejected"}
    IN  IF rejected = {} THEN NoError
        ELSE cs[kids[CHOOSE i \in rejected: \A j \in rejected: i <= j]].outVal

\* A variant of settle in which the rejection of a detached extension
\* rejects what its target waits for.  DetachedNeverDecides does not hold
\* of it
settleAwaited(cs, c, out, val) ==
    LET p == cs[c].parent
        cs1 == [cs EXCEPT ![c].out = out, ![c].outVal = val, ![c].pc = "done"]
    IN  IF /\ out = "rejected"
           /\ p # 0
           /\ cs[c].bindType \in bindTypes
           /\ cs[p].pc \in {"before", "invoke", "with", "after"}
           /\ cs[p].allErr = NoError
        THEN [cs1 EXCEPT ![p].allErr = val]
        ELSE cs1

\* call c settles.  A pending Promise.all that awaits c rejects with the
\* first rejection it sees: the parent's allErr
settle(cs, c, out, val) ==
    LET p == cs[c].parent
        cs1 == [cs EXCEPT ![c].out = out, ![c].outVal = val, ![c].pc = "done"]
    IN  IF /\ out = "rejected"
           /\ p # 0
           /\ cs[c].bindType \in {"before", "with", "after"}
           /\ cs[p].pc = cs[c].bindType
           /\ cs[p].allErr = NoError
        THEN [cs1 EXCEPT ![p].allErr = val]
        ELSE cs1

-----------------------------------------------------------------------------
(* Merging extension results *)

\* A variant of mergeArgs that merges the results last to first.
\* ImplArgsMerged does not hold of it
RECURSIVE mergeArgsReversed(_, _)
mergeArgsReversed(args, rs) ==
    IF rs = <<>> THEN args
    ELSE LET r == rs[Len(rs)]
         IN  mergeArgsReversed(IF IsObject(r) THEN merge(args, r) ELSE args,
                               SubSeq(rs, 1, Len(rs) - 1))

\* runBefore, the callback of Promise.all: merge each object result into args
RECURSIVE mergeArgs(_, _)
mergeArgs(args, rs) ==
    IF rs = <<>> THEN args
    ELSE mergeArgs(IF IsObject(Head(rs)) THEN merge(args, Head(rs)) ELSE args,
                   Tail(rs))

\* A variant of mergeResult that replaces where it should merge.
\* ResolvedValueFolded does not hold of it
replaceResult(res, result) == IF result # Undefined THEN result ELSE res

\* runAfter and runWithAfter, the body of _.each: merge or replace
mergeResult(res, result) ==
    IF IsObject(res) /\ IsObject(result) THEN merge(res, result)
    ELSE IF result # Undefined THEN result
    ELSE res

\* runAfter and runWithAfter, the callback of Promise.all
RECURSIVE mergeResults(_, _)
mergeResults(res, rs) ==
    IF rs = <<>> THEN res
    ELSE mergeResults(mergeResult(res, Head(rs)), Tail(rs))

\* args.session.stack.push(frame)
pushStack(args, frame) ==
    LET session == Get(args, "session")
    IN  Put(args, "session",
            Put(session, "stack", Arr(Append(Get(session, "stack").a, frame))))

\* the stack entry of a call: the signature, with bindType and
\* bindSignature appended for a bound call
stackFrame(call) ==
    IF call.bindType \in bindTypes
    THEN [t |-> "frame", signature |-> call.method, bindType |-> call.bindType,
          bindSignature |-> call.bindSignature]
    ELSE [t |-> "frame", signature |-> call.method, bindType |-> "",
          bindSignature |-> ""]

\* runAfter: the args the after extensions are called with
afterArgs(args, res) ==
    Obj([args |-> IF defined(Get(args, "args")) THEN Get(args, "args") ELSE args,
         res |-> res,
         origRes |-> IF defined(Get(args, "origRes")) THEN Get(args, "origRes")
                     ELSE Get(args, "res"),
         session |-> Get(args, "session")])

\* runAfterDetach: the args the afterDetach extensions are called with
afterDetachArgs(args, res) ==
    Obj([args |-> IF Truthy(Get(args, "args")) THEN Get(args, "args") ELSE args,
         res |-> res,
         origRes |-> IF Truthy(Get(args, "origRes")) THEN Get(args, "origRes")
                     ELSE Get(args, "res"),
         session |-> Get(args, "session")])

-----------------------------------------------------------------------------
(* The environment: implementations, registries, arguments *)

Payload == Obj([foo |-> Scalar("a"), n |-> Obj([x |-> Scalar("a")])])
Other == Obj([foo |-> Scalar("b"), n |-> Obj([y |-> Scalar("b")])])

\* what an implementation resolves with
Results == { Undefined, Null, Scalar("false"), Payload, Other }

\* Implementations.  `calls`: the methods it calls while it runs;
\* `results`: the values it may resolve with; `session`: it may also resolve
\* with {session: args.session}; `fails`: it may reject or throw
Full == [calls |-> {}, results |-> Results, session |-> FALSE, fails |-> TRUE]
\* resolves with a value or with its session, or fails
Setter == [Full EXCEPT !.session = TRUE]
\* its value is of no interest
Plain == [calls |-> {}, results |-> {Undefined}, session |-> FALSE, fails |-> TRUE]
\* calls other methods
Caller(callees) ==
    [calls |-> callees, results |-> {Scalar("false")}, session |-> FALSE, fails |-> FALSE]

\* every method defined, none bound
Defined(strictArgs, methods) ==
    [m \in Methods |-> methodMeta(IF m = "T" THEN strictArgs ELSE TRUE, methods[m])]

AllFull == [m \in Methods |-> Full]

\* T's implementation calls E1 and E2, each of which calls E3
Nested(s) ==
    Defined(s, [m \in Methods |->
        CASE m = "T" -> Caller({"E1", "E2"})
          [] m \in {"E1", "E2"} -> Caller({"E3"})
          [] OTHER -> Caller({})])

\* two before extensions and a detached one
Befores(s) ==
    bind(bind(bind(Defined(s, [AllFull EXCEPT !["E1"] = Setter, !["E2"] = Setter,
                                             !["E3"] = Plain, !["T"] = Plain]),
         "before", "T", "E1"), "before", "T", "E2"), "beforeDetach", "T", "E3")

\* the registries the runs start from: the methods and the binds made
Registries ==
    { Nested(TRUE), Nested(FALSE), Befores(TRUE), Befores(FALSE),
      \* a chain of after extensions
      bind(bind(bind(Defined(TRUE, AllFull),
           "after", "T", "E1"), "after", "E1", "E2"), "after", "E2", "E3"),
      \* with and after extensions of one target
      bind(bind(bind(Defined(TRUE, AllFull),
           "with", "T", "E1"), "with", "T", "E2"), "after", "T", "E3"),
      bind(bind(bind(Defined(TRUE, AllFull),
           "with", "T", "E1"), "after", "T", "E2"), "after", "T", "E3"),
      \* detached extensions of one target
      bind(bind(bind(Defined(TRUE, [AllFull EXCEPT !["E1"] = Plain, !["E2"] = Plain,
                                                  !["E3"] = Plain]),
           "withDetach", "T", "E1"), "afterDetach", "T", "E2"), "beforeDetach", "T", "E3"),
      \* one extension of each awaited relation
      bind(bind(bind(Defined(TRUE, [m \in Methods |-> Plain]),
           "before", "T", "E1"), "with", "T", "E2"), "after", "T", "E3"),
      \* an afterDetach extension at the end of an after chain
      bind(bind(bind(Defined(TRUE, [AllFull EXCEPT !["E2"] = Plain, !["E3"] = Plain]),
           "after", "T", "E1"), "afterDetach", "E1", "E2"), "after", "E1", "E3") }

\* what a root call is called with: nothing, a value that is no object, an
\* object without a session, one whose session is no object, valid args
RootArgs ==
    { Undefined, Scalar("true"),
      Obj([foo |-> Scalar("a")]),
      Obj([foo |-> Scalar("a"), session |-> Scalar("s")]),
      Obj([foo |-> Scalar("a"), n |-> Obj([x |-> Scalar("a")]),
           session |-> Obj([requestId |-> Scalar("r")])]) }

\* what the implementation of call c may resolve with
resultsOf(c) ==
    LET method == meta[calls[c].method].method
    IN  method.results \cup
        IF method.session
        THEN {Obj([session |-> Get(calls[c].implArgs, "session")])}
        ELSE {}

-----------------------------------------------------------------------------
(* The registry: lib/immutable-core.js and the registry side of the module *)

\* an implementation that calls nothing and resolves with undefined
Quiet == [calls |-> {}, results |-> {Undefined}, session |-> FALSE,
          fails |-> FALSE]

\* the names of the functions (ImmutableCore.function)
Functions == {"f"}

\* the module of a method: its signature is <module>.<method>
ModuleOf(m) == IF m = "T" THEN "A" ELSE "B"

\* the methods a module may hold
MethodsOf(name) == {m \in Methods: ModuleOf(m) = name}

\* the state the registry operations work on: the global store, the meta
\* data of the methods, and whether the operation has thrown
State(reg, mt) == [registry |-> reg, meta |-> mt, threw |-> FALSE]

\* throw new Error(...): the operation ends with the state it has reached
Throw(st) == [st EXCEPT !.threw = TRUE]

\* the position of the entry of bindMethod in the entries of one bind type
\* (an object keyed by the signature of the bound method), 0 when none
EntryOf(entries, bindMethod) ==
    IF \E i \in DOMAIN entries: entries[i].method = bindMethod
    THEN CHOOSE i \in DOMAIN entries: entries[i].method = bindMethod
    ELSE 0

\* hasMethod
hasMethod(st, m) ==
    ModuleOf(m) \in DOMAIN st.registry.modules /\ st.meta[m] # Undefined

\* the bind of the module (part_015 lines 142-193): the global entry is
\* marked bound, or made, and bindMethod is pushed on the list of the method
moduleBind(st, bindType, methodName, bindMethod) ==
    LET entries == st.registry.binds[methodName][bindType]
        i == EntryOf(entries, bindMethod)
    IN  IF st.meta[methodName] = Undefined THEN Throw(st)
        ELSE IF i # 0 /\ entries[i].bound /\ ~st.registry.defaultAllowOverride
        THEN Throw(st)
        ELSE [st EXCEPT
                !.registry.binds[methodName][bindType] =
                    IF i # 0 THEN [entries EXCEPT ![i].bound = TRUE]
                    ELSE Append(entries, [bound |-> TRUE, method |-> bindMethod]),
                !.meta = bind(st.meta, bindType, methodName, bindMethod)]

\* doBindForMethod, the inner _.each: the entries of one bind type from the
\* i-th on, each bound unless it is bound already
RECURSIVE doBindEntries(_, _, _, _)
doBindEntries(st, m, bindType, i) ==
    LET entries == st.registry.binds[m][bindType]
    IN  IF i > Len(entries) \/ st.threw THEN st
        ELSE IF entries[i].bound THEN doBindEntries(st, m, bindType, i + 1)
        ELSE doBindEntries(moduleBind(st, bindType, m, entries[i].method),
                           m, bindType, i + 1)

\* doBindForMethod, the outer _.each over the bind types of the method
RECURSIVE doBindTypes(_, _, _)
doBindTypes(st, m, types) ==
    IF types = {} \/ st.threw THEN st
    ELSE LET bindType == CHOOSE t \in types: TRUE
         IN  doBindTypes(doBindEntries(st, m, bindType, 1), m, types \ {bindType})

\* doBindForMethod (lib/immutable-core.js lines 921-955)
doBindForMethod(st, m) ==
    IF ~hasMethod(st, m) THEN st ELSE doBindTypes(st, m, bindTypes)

\* the cache of the module (part_015 lines 218-254)
moduleCache(st, methodName, rule) ==
    LET globalCache == st.registry.caches[methodName]
    IN  IF st.meta[methodName] = Undefined THEN Throw(st)
        ELSE IF defined(globalCache) /\ globalCache.cached
                /\ ~st.registry.defaultAllowOverride
        THEN Throw(st)
        ELSE [st EXCEPT
                !.registry.caches[methodName] =
                    IF defined(globalCache) THEN [globalCache EXCEPT !.cached = TRUE]
                    ELSE [t |-> "object", cached |-> TRUE, cache |-> Undefined],
                !.meta = cache(st.meta, methodName, rule)]

\* doCacheForMethod (lib/immutable-core.js lines 964-988)
doCacheForMethod(st, m) ==
    IF ~hasMethod(st, m) \/ ~defined(st.registry.caches[m]) THEN st
    ELSE LET st1 == moduleCache(st, m, st.registry.caches[m].cache)
         IN  IF st1.threw THEN st1
             ELSE [st1 EXCEPT !.registry.caches[m].cached = TRUE]

\* A variant of bind without the check for an entry of the same bound
\* method: the entry is always written.  DuplicateThrows does not hold of it
coreBindAlways(st, bindType, m, bindMethod) ==
    LET entries == st.registry.binds[m][bindType]
        i == EntryOf(entries, bindMethod)
        entry == [bound |-> FALSE, method |-> bindMethod]
    IN  IF st.meta[bindMethod] = Undefined THEN Throw(st)
        ELSE doBindForMethod(
                [st EXCEPT !.registry.binds[m][bindType] =
                    IF i # 0 THEN [entries EXCEPT ![i] = entry]
                    ELSE Append(entries, entry)], m)

\* bind (lib/immutable-core.js lines 877-912): before, after, with, ...
coreBind(st, bindType, m, bindMethod) ==
    LET entries == st.registry.binds[m][bindType]
        i == EntryOf(entries, bindMethod)
        entry == [bound |-> FALSE, method |-> bindMethod]
    IN  IF st.meta[bindMethod] = Undefined THEN Throw(st)
        ELSE IF i # 0 /\ ~st.registry.defaultAllowOverride THEN Throw(st)
        ELSE doBindForMethod(
                [st EXCEPT !.registry.binds[m][bindType] =
                    IF i # 0 THEN [entries EXCEPT ![i] = entry]
                    ELSE Append(entries, entry)], m)

\* cache (lib/immutable-core.js lines 290-314)
coreCache(st, m, rule) ==
    IF defined(st.registry.caches[m]) /\ ~st.registry.defaultAllowOverride
    THEN Throw(st)
    ELSE doCacheForMethod(
            [st EXCEPT !.registry.caches[m] =
                [t |-> "object", cached |-> FALSE, cache |-> rule]], m)

\* the method of the module (part_015 lines 319-399): a new wrapper with
\* new meta data, unless the method is defined and may not be overridden
moduleMethod(st, m, method, allowOverride) ==
    IF ~allowOverride /\ st.meta[m] # Undefined THEN Throw(st)
    ELSE [st EXCEPT !.meta[m] = methodMeta(TRUE, method)]

\* the allowOverride option where it is given (a JavaScript value), the
\* default where it is not
allowOverrideOf(allowOverride, default) ==
    IF defined(allowOverride) THEN Truthy(allowOverride) ELSE default

\* getModule, the _.each over the methods (lines 553-558): `methods` maps
\* the names of the methods to their functions
RECURSIVE defineMethods(_, _, _, _)
defineMethods(st, name, methods, names) ==
    IF names = {} \/ st.threw THEN st
    ELSE LET m == CHOOSE x \in names: TRUE
             allow == st.registry.modules[name].allowOverride
             st1 == moduleMethod(st, m, methods[m], allow)
         IN  defineMethods(IF st1.threw THEN st1 ELSE doBindForMethod(st1, m),
                           name, methods, names \ {m})

\* getModule with methods (lib/immutable-core.js lines 531-560): a new
\* module takes the place of the one of that name; its allowOverride
\* option is the one given, or the global default (getValidOptions)
getModule(st, name, methods, allowOverride) ==
    LET allow == allowOverrideOf(allowOverride, st.registry.defaultAllowOverride)
    IN  IF name \in DOMAIN st.registry.modules /\ ~allow THEN Throw(st)
        ELSE defineMethods(
                [st EXCEPT
                    !.registry.modules =
                        [n \in DOMAIN @ \cup {name} |->
                            IF n = name THEN [allowOverride |-> allow] ELSE @[n]],
                    !.meta = [m \in Methods |->
                                IF ModuleOf(m) = name THEN Undefined ELSE @[m]]],
                name, methods, DOMAIN methods)

\* getMethod with a method (lib/immutable-core.js lines 483-511): the
\* allowOverride option is the one given, or the one of the module
getMethod(st, m, method, allowOverride) ==
    IF ModuleOf(m) \notin DOMAIN st.registry.modules THEN Throw(st)
    ELSE LET st1 == moduleMethod(st, m, method,
                        allowOverrideOf(allowOverride,
                            st.registry.modules[ModuleOf(m)].allowOverride))
             st2 == IF st1.threw THEN st1 ELSE doBindForMethod(st1, m)
         IN  IF st2.threw THEN st2 ELSE doCacheForMethod(st2, m)

\* new ImmutableFunction(functionName, functionObj, options)
ImmutableFunction(functionName, functionObj) ==
    [t |-> "function", name |-> functionName, functionObj |-> functionObj]

\* getFunction with a function (lib/immutable-core.js lines 421-441)
getFunction(st, functionName, functionObj, allowOverride) ==
    IF /\ defined(st.registry.functions[functionName])
       /\ ~allowOverrideOf(allowOverride, st.registry.defaultAllowOverride)
    THEN Throw(st)
    ELSE [st EXCEPT !.registry.functions[functionName] =
                        ImmutableFunction(functionName, functionObj)]

-----------------------------------------------------------------------------
(* The cached path: runCached *)

\* _.pick(args, keys)
Pick(args, keys) ==
    Obj([k \in DOMAIN args.f \cap keys |-> args.f[k]])

\* A variant of getCacheKey that leaves the session in the args.
\* KeyOfSelectedArgs does not hold of it
getCacheKeyOfAll(args, m, mt) ==
    LET keyParams == mt[m].cache.keyParams
    IN  [t |-> "key",
         args |-> IF Truthy(keyParams) THEN Pick(args, Range(keyParams.a))
                  ELSE args,
         method |-> m]

\* getCacheKey: the id of the method signature and of the args without the
\* session, or of the args the rule's keyParams name.  stableId is a hash of
\* the serialised data: the key stands for the data it was made of
getCacheKey(args, m, mt) ==
    LET keyParams == mt[m].cache.keyParams
    IN  [t |-> "key",
         args |-> IF Truthy(keyParams) THEN Pick(args, Range(keyParams.a))
                  ELSE Pick(args, DOMAIN args.f \ {"session"}),
         method |-> m]

\* the cached path of a call when cacheClient.get(key, session) was called
getCalled(key, session) ==
    [key |-> key, session |-> session, get |-> "pending", got |-> Undefined,
     handler |-> "then", invoked |-> 0, sets |-> <<>>]

\* A variant of runNotCached that freezes the args without cloning them
\* first.  ImplArgsFrozen does not hold of it
runNotCachedNoClone(cs, c, throws) ==
    LET freeze == Truthy(meta[cs[c].method].freeze)
    IN  [cs EXCEPT ![c].implArgs = cs[c].args,
                   ![c].implObjects = argsObjects,
                   ![c].frozen = IF freeze THEN deepFreeze(argsObjects) ELSE {},
                   ![c].impl = IF throws THEN "thrown" ELSE "pending"]

\* runNotCached: the implementation is invoked with the args of the call,
\* with a frozen deep clone of them if methodMeta.freeze; it returns a
\* promise or throws
runNotCached(cs, c, throws) ==
    LET freeze == Truthy(meta[cs[c].method].freeze)
        objects == IF freeze THEN cloneDeep(argsObjects, "implArgs")
                   ELSE argsObjects
    IN  [cs EXCEPT ![c].implArgs = cs[c].args,
                   ![c].implObjects = objects,
                   ![c].frozen = IF freeze THEN deepFreeze(objects) ELSE {},
                   ![c].impl = IF throws THEN "thrown" ELSE "pending"]

\* the objects of what runNotCached resolves with when the implementation
\* of call has resolved with v: the objects of v (those of its args where
\* it hands on a part of its args) or, if methodMeta.freeze, of a deep
\* clone of v (lines 950-954)
resolvedObjects(call, v, mm) ==
    LET returned == {"implRes"} \cup
                    IF mm.method.session
                       /\ v = Obj([session |-> Get(call.implArgs, "session")])
                    THEN call.implObjects ELSE {}
    IN  IF Truthy(mm.freeze) THEN cloneDeep(returned, "res") ELSE returned

\* A variant of cachedValue that hands on the cached value as it is.
\* CacheHitSkipsMethod does not hold of it
cachedValueAsIs(res, key) == res

\* the cached value found: a value that is an object gets the key as _cached
cachedValue(res, key) ==
    IF res.t = "object" THEN Put(res, "_cached", key) ELSE res

\* A variant of cacheResult that caches null as well.
\* CacheMissPersists does not hold of it
cacheResultAlways(path, res, rule) ==
    Append(path.sets,
           IF Truthy(rule.expire)
           THEN [op |-> "setex", key |-> path.key, value |-> res,
                 expire |-> rule.expire, session |-> path.session]
           ELSE [op |-> "set", key |-> path.key, value |-> res,
                 expire |-> Undefined, session |-> path.session])

\* the callback of runNotCached in runCached (lines 876-887 and 903-914):
\* the calls of set and setex the cached path has made, after the
\* implementation resolved with res
cacheResult(path, res, rule) ==
    IF res # Null
    THEN Append(path.sets,
                IF Truthy(rule.expire)
                THEN [op |-> "setex", key |-> path.key, value |-> res,
                      expire |-> rule.expire, session |-> path.session]
                ELSE [op |-> "set", key |-> path.key, value |-> res,
                      expire |-> Undefined, session |-> path.session])
    ELSE path.sets

-----------------------------------------------------------------------------
(* Logging: logCall and logReturn *)

\* the method has a logClient and the session of args does not disable
\* logging (lines 600-606, 635-643)
logging(args, mm) ==
    defined(mm.logClient) /\ ~Truthy(Get(Get(args, "session"), "noLogging"))

\* logCall: logClient.log('moduleCall', ...) with the args as they are when
\* it is called
logCall(lg, args, mm) ==
    IF ~logging(args, mm) THEN lg
    ELSE Append(lg, [type |-> "moduleCall", args |-> args,
                     moduleCallId |-> Get(Get(args, "session"), "moduleCallId")])

\* logReturn, when the promise it was given settles: the callback injected
\* into the chain calls logClient.log('moduleCallResolve', ...)
logReturn(lg, args, mm, resolved, data) ==
    IF ~logging(args, mm) THEN lg
    ELSE Append(lg, [type |-> "moduleCallResolve",
                     moduleCallId |-> Get(Get(args, "session"), "moduleCallId"),
                     resolved |-> resolved, moduleCallResolveData |-> data])

\* the log after a step to calls cs2 in which call c may have settled.
\* logReturn is called at the end of the second callback (line 478): it is
\* in the chain of a call that settles after that callback has returned
logSettled(cs2, c) ==
    IF calls[c].out = "pending" /\ cs2[c].out # "pending"
       /\ calls[c].pc \in {"invoke", "with", "after"}
    THEN logReturn(log, calls[c].args, meta[calls[c].method],
                   IF cs2[c].out = "resolved" THEN 1 ELSE 0, cs2[c].outVal)
    ELSE log

-----------------------------------------------------------------------------
(* History *)

\* the calls of cs2 that have settled and had not in the state before
newlySettled(cs2) ==
    SelectSeq([i \in 1..Len(cs2) |-> i],
              LAMBDA i: cs2[i].out # "pending"
                        /\ (i > Len(calls) \/ calls[i].out = "pending"))

\* the history after a step to calls cs2; no history is kept when it is off
recorded(cs2) ==
    IF order.on THEN [order EXCEPT !.seq = @ \o newlySettled(cs2)] ELSE order

-----------------------------------------------------------------------------
(* Actions *)

\* global.__immutable_core__ when only the module handles were used
\* (after reset), with the record of the operations on it: their number,
\* the last of them, whether it threw, whether override was ever enabled,
\* the bindings that were registered before their target was defined and
\* the registrations that the last reset has cleared
NoRegistry == [modules |-> <<>>,
               functions |-> [f \in Functions |-> Undefined],
               cleared |-> {},
               binds |-> [m \in Methods |-> NoBinds],
               caches |-> [m \in Methods |-> Undefined],
               defaultAllowOverride |-> FALSE,
               ops |-> 0, op |-> <<>>, threw |-> FALSE, overridden |-> FALSE,
               queued |-> {}]

\* no history is kept
NoHistory == [on |-> FALSE, seq |-> <<>>]

Init ==
    /\ meta \in Registries
    /\ calls = <<>>
    /\ cacheCalls = <<>>
    /\ registry = NoRegistry
    /\ order = NoHistory
    /\ log = <<>>

\* the application calls a method: method(args), method() or, with a
\* second positional argument that is no bind type, method(args, x)
Call(m, args, nargs) ==
    /\ calls = <<>>
    /\ meta[m] # Undefined
    /\ nargs = 0 => args = Undefined
    /\ calls' = <<methodWrapperFunction(1, m, args, nargs, "", "", 0, meta)>>
    /\ order' = recorded(calls')
    /\ UNCHANGED <<meta, registry, cacheCalls, log>>

\* A variant of ThenBefore that logs the call after its frame is pushed.
\* CallLoggedFirst does not hold of it
ThenBeforeLogsLast(c) ==
    LET call == calls[c]
        args == pushStack(call.args, stackFrame(call))
        mm == meta[call.method]
        cs0 == [calls EXCEPT ![c].args = args, ![c].ctxArgs = args,
                             ![c].pc = "before"]
        cs1 == callAll(cs0, mm.bind.beforeDetach, args, c, "beforeDetach", meta)
        cs2 == callAll(cs1, mm.bind.before, args, c, "before", meta)
    IN  /\ call.pc = "entered"
        /\ Len(cs2) <= MaxCalls
        /\ calls' = [cs2 EXCEPT ![c].allErr = firstRejected(cs2, Kids(cs2, c, "before"))]
        /\ order' = recorded(calls')
        /\ log' = logCall(log, args, mm)
        /\ UNCHANGED <<meta, registry, cacheCalls>>

\* the first callback (lines 441-454): the call is logged, the frame is
\* pushed, the beforeDetach and the before extensions are called
ThenBefore(c) ==
    LET call == calls[c]
        args == pushStack(call.args, stackFrame(call))
        mm == meta[call.method]
        cs0 == [calls EXCEPT ![c].args = args, ![c].ctxArgs = args,
                             ![c].pc = "before"]
        cs1 == callAll(cs0, mm.bind.beforeDetach, args, c, "beforeDetach", meta)
        cs2 == callAll(cs1, mm.bind.before, args, c, "before", meta)
    IN  /\ call.pc = "entered"
        /\ Len(cs2) <= MaxCalls
        /\ calls' = [cs2 EXCEPT ![c].allErr = firstRejected(cs2, Kids(cs2, c, "before"))]
        /\ order' = recorded(calls')
        /\ log' = logCall(log, call.args, mm)
        /\ UNCHANGED <<meta, registry, cacheCalls>>

\* the second callback (lines 456-481): the before results are merged into
\* args, which are validated (validateArgs throws: the call rejects); the
\* withDetach and with extensions are called and the implementation is
\* invoked (runNotCached); it returns a promise or throws.
\* A method with a cache rule calls cacheClient.get instead (runCached)
ThenInvoke(c, throws) ==
    LET call == calls[c]
        mm == meta[call.method]
        args == mergeArgs(call.args, results(calls, Kids(calls, c, "before")))
        cs0 == [calls EXCEPT ![c].args = args, ![c].pc = "invoke"]
        cs1 == callAll(cs0, mm.bind.withDetach, args, c, "withDetach", meta)
        cs2 == callAll(cs1, mm.bind.with, args, c, "with", meta)
        cs3 == runNotCached(cs2, c, throws)
    IN  /\ call.pc = "before"
        /\ allResolved(calls, Kids(calls, c, "before"))
        /\ throws => mm.method.fails /\ ~defined(mm.cache)
        /\ throws => validateArgs(args, mm)
        /\ Len(cs2) <= MaxCalls
        /\ IF ~validateArgs(args, mm)
           THEN /\ calls' = settle(cs0, c, "rejected", Error("invalid args schema", c))
                /\ UNCHANGED cacheCalls
           ELSE IF defined(mm.cache)
           THEN /\ calls' = cs2
                /\ cacheCalls' =
                        (c :> getCalled(getCacheKey(args, call.method, meta),
                                        Get(args, "session"))) @@ cacheCalls
           ELSE /\ calls' = IF throws
                            THEN settle(cs3, c, "rejected", Error("thrown", c))
                            ELSE cs3
                /\ UNCHANGED cacheCalls
        /\ order' = recorded(calls')
        /\ UNCHANGED <<meta, registry, log>>

\* a running implementation calls method m, handing on the args it was
\* given; it calls each of the methods it calls once
MethodCalls(c, m) ==
    /\ calls[c].impl = "pending"
    /\ m \in meta[calls[c].method].method.calls
    /\ \A k \in Range(Kids(calls, c, "")): calls[k].method # m
    /\ Len(calls) < MaxCalls
    /\ calls' = Append(calls,
            methodWrapperFunction(Len(calls) + 1, m, calls[c].implArgs, 1, "", "", c, meta))
    /\ order' = recorded(calls')
    /\ UNCHANGED <<meta, registry, cacheCalls, log>>

\* the promise of the implementation resolves with v.  Where runNotCached
\* has chained validateReturn and it throws, the promise of runNotCached
\* rejects as in MethodRejects.  Otherwise, on the cached path the result
\* is cached; runWithAfter then waits for the with extensions
MethodResolves(c, v) ==
    LET mm == meta[calls[c].method]
        cs0 == [calls EXCEPT ![c].implRes = v,
                             ![c].resObjects = resolvedObjects(calls[c], v, mm)]
    IN  /\ calls[c].impl = "pending"
        /\ v \in resultsOf(c)
        /\ IF validatesReturn(mm) /\ ~validateReturn(v, mm)
           THEN /\ calls' =
                    IF c \in DOMAIN cacheCalls /\ cacheCalls[c].handler = "then"
                    THEN [cs0 EXCEPT ![c].impl = "rejected"]
                    ELSE settle([cs0 EXCEPT ![c].impl = "resolved"], c,
                                "rejected", Error("invalid return", c))
                /\ UNCHANGED cacheCalls
           ELSE /\ calls' = [cs0 EXCEPT ![c].impl = "resolved",
                                ![c].res = v, ![c].pc = "with",
                                ![c].allErr = firstRejected(calls, Kids(calls, c, "with"))]
                /\ cacheCalls' =
                        IF c \in DOMAIN cacheCalls
                        THEN [cacheCalls EXCEPT ![c].sets =
                                cacheResult(cacheCalls[c], v, mm.cache)]
                        ELSE cacheCalls
        /\ order' = recorded(calls')
        /\ log' = logSettled(calls', c)
        /\ UNCHANGED <<meta, registry>>

\* the promise of the implementation rejects: so does the call, unless the
\* implementation was invoked in the then callback of runCached, whose
\* rejection the catch callback of runCached handles
MethodRejects(c) ==
    /\ calls[c].impl = "pending"
    /\ meta[calls[c].method].method.fails
    /\ calls' = IF c \in DOMAIN cacheCalls /\ cacheCalls[c].handler = "then"
                THEN [calls EXCEPT ![c].impl = "rejected"]
                ELSE settle([calls EXCEPT ![c].impl = "rejected"], c,
                            "rejected", Error("rejected", c))
    /\ order' = recorded(calls')
    /\ log' = logSettled(calls', c)
    /\ UNCHANGED <<meta, registry, cacheCalls>>

\* cacheClient.get resolves with v (runCached, lines 868-898).  null: the
\* implementation is invoked.  Any other value is the result of the call,
\* for which runWithAfter then waits for the with extensions
CacheGetResolves(c, v, throws) ==
    LET path == [cacheCalls[c] EXCEPT !.get = "resolved", !.got = v]
    IN  /\ c \in DOMAIN cacheCalls
        /\ cacheCalls[c].get = "pending"
        /\ throws => v = Null /\ meta[calls[c].method].method.fails
        /\ IF v = Null
           THEN /\ calls' = runNotCached(calls, c, throws)
                /\ cacheCalls' = [cacheCalls EXCEPT ![c] =
                                    [path EXCEPT !.invoked = @ + 1]]
           ELSE /\ calls' = [calls EXCEPT
                                ![c].res = cachedValue(v, path.key),
                                ![c].pc = "with",
                                ![c].allErr = firstRejected(calls, Kids(calls, c, "with"))]
                /\ cacheCalls' = [cacheCalls EXCEPT ![c] = path]
        /\ order' = recorded(calls')
        /\ UNCHANGED <<meta, registry, log>>

\* A variant of CacheGetRejects in which the call rejects with the error of
\* cacheClient.get.  CacheGetErrorIsMiss does not hold of it
CacheGetRejectsCall(c) ==
    /\ c \in DOMAIN cacheCalls
    /\ cacheCalls[c].get = "pending"
    /\ cacheCalls' = [cacheCalls EXCEPT ![c].get = "rejected", ![c].handler = "catch"]
    /\ calls' = settle(calls, c, "rejected", Error("cache get", c))
    /\ order' = recorded(calls')
    /\ UNCHANGED <<meta, registry, log>>

\* cacheClient.get rejects
CacheGetRejects(c) ==
    /\ c \in DOMAIN cacheCalls
    /\ cacheCalls[c].get = "pending"
    /\ cacheCalls' = [cacheCalls EXCEPT ![c].get = "rejected"]
    /\ UNCHANGED <<meta, calls, registry, order, log>>

\* the catch callback of runCached (lines 899-916): it handles the rejection
\* of cacheClient.get and every rejection of the then callback, and invokes
\* the implementation
CacheCatch(c, throws) ==
    LET cs == runNotCached(calls, c, throws)
    IN  /\ c \in DOMAIN cacheCalls
        /\ cacheCalls[c].handler = "then"
        /\ \/ cacheCalls[c].get = "rejected"
           \/ calls[c].impl \in {"thrown", "rejected"}
        /\ throws => meta[calls[c].method].method.fails
        /\ calls' = IF throws THEN settle(cs, c, "rejected", Error("thrown", c))
                    ELSE cs
        /\ cacheCalls' = [cacheCalls EXCEPT ![c].handler = "catch",
                                            ![c].invoked = @ + 1]
        /\ order' = recorded(calls')
        /\ log' = logSettled(calls', c)
        /\ UNCHANGED <<meta, registry>>

\* A variant of ThenWith that does not wait for the with extensions: it
\* goes on with the results they have.  WithRunsAlongside does not hold of it
ThenWithNoWait(c) ==
    LET call == calls[c]
        mm == meta[call.method]
        res == mergeResults(call.res, results(calls, Kids(calls, c, "with")))
        cs0 == [calls EXCEPT ![c].res = res, ![c].pc = "after"]
        cs1 == callAll(cs0, mm.bind.afterDetach, afterDetachArgs(call.args, res),
                       c, "afterDetach", meta)
        cs2 == callAll(cs1, mm.bind.after, afterArgs(call.args, res), c, "after", meta)
    IN  /\ call.pc = "with"
        /\ \A k \in Range(Kids(calls, c, "with")): calls[k].out # "rejected"
        /\ Len(cs2) <= MaxCalls
        /\ calls' = [cs2 EXCEPT ![c].allErr = firstRejected(cs2, Kids(cs2, c, "after"))]
        /\ order' = recorded(calls')
        /\ UNCHANGED <<meta, registry, cacheCalls, log>>

\* the with extensions have resolved (runWithAfter, lines 982-1003): their
\* results are merged, then the afterDetach and the after extensions are
\* called (runAfterDetach lines 744-766, runAfter lines 690-704)
ThenWith(c) ==
    LET call == calls[c]
        mm == meta[call.method]
        res == mergeResults(call.res, results(calls, Kids(calls, c, "with")))
        cs0 == [calls EXCEPT ![c].res = res, ![c].pc = "after"]
        cs1 == callAll(cs0, mm.bind.afterDetach, afterDetachArgs(call.args, res),
                       c, "afterDetach", meta)
        cs2 == callAll(cs1, mm.bind.after, afterArgs(call.args, res), c, "after", meta)
    IN  /\ call.pc = "with"
        /\ allResolved(calls, Kids(calls, c, "with"))
        /\ Len(cs2) <= MaxCalls
        /\ calls' = [cs2 EXCEPT ![c].allErr = firstRejected(cs2, Kids(cs2, c, "after"))]
        /\ order' = recorded(calls')
        /\ UNCHANGED <<meta, registry, cacheCalls, log>>

\* the after extensions have resolved (runAfter, lines 706-722): their
\* results are merged and the call resolves
ThenAfter(c) ==
    LET call == calls[c]
        res == mergeResults(call.res, results(calls, Kids(calls, c, "after")))
    IN  /\ call.pc = "after"
        /\ allResolved(calls, Kids(calls, c, "after"))
        /\ calls' = settle(calls, c, "resolved", res)
        /\ order' = recorded(calls')
        /\ log' = logSettled(calls', c)
        /\ UNCHANGED <<meta, registry, cacheCalls>>

\* A variant of PromiseAllRejects in which the rejection of an awaited
\* extension is swallowed as that of a detached one is: the call resolves
\* with the result it has.  ExtensionRejectionRejects does not hold of it
PromiseAllRejectsSwallowed(c) ==
    /\ calls[c].pc \in {"before", "with", "after"}
    /\ calls[c].allErr # NoError
    /\ calls' = settle(calls, c, "resolved", calls[c].res)
    /\ order' = recorded(calls')
    /\ log' = logSettled(calls', c)
    /\ UNCHANGED <<meta, registry, cacheCalls>>

\* the Promise.all the call waits for has rejected: so does the call
PromiseAllRejects(c) ==
    /\ calls[c].pc \in {"before", "with", "after"}
    /\ calls[c].allErr # NoError
    /\ calls' = settle(calls, c, "rejected", calls[c].allErr)
    /\ order' = recorded(calls')
    /\ log' = logSettled(calls', c)
    /\ UNCHANGED <<meta, registry, cacheCalls>>

Next ==
    \/ \E m \in Methods, args \in RootArgs, nargs \in 0..2: Call(m, args, nargs)
    \/ \E c \in Ids(calls): ThenBefore(c)
    \/ \E c \in Ids(calls), throws \in BOOLEAN: ThenInvoke(c, throws)
    \/ \E c \in Ids(calls), m \in Methods: MethodCalls(c, m)
    \/ \E c \in Ids(calls): \E v \in resultsOf(c): MethodResolves(c, v)
    \/ \E c \in Ids(calls): MethodRejects(c)
    \/ \E c \in Ids(calls): ThenWith(c)
    \/ \E c \in Ids(calls): ThenAfter(c)
    \/ \E c \in Ids(calls): PromiseAllRejects(c)

Spec == Init /\ [][Next]_vars

-----------------------------------------------------------------------------
(* Calls of a method with a cache rule *)

\* T has a cache rule, without and with an expiry
CacheRegistries ==
    { cache(Defined(TRUE, AllFull), "T", CacheRule(expire, Undefined)) :
        expire \in {Undefined, Scalar("60")} }

\* what cacheClient.get may resolve with: null, nothing, cached values
CacheGets == { Null, Undefined, Scalar("false"), Payload }

CacheInit ==
    /\ meta \in CacheRegistries
    /\ calls = <<>>
    /\ cacheCalls = <<>>
    /\ registry = NoRegistry
    /\ order = NoHistory
    /\ log = <<>>

CacheNext ==
    \/ \E m \in Methods, args \in RootArgs, nargs \in 0..2: Call(m, args, nargs)
    \/ \E c \in Ids(calls): ThenBefore(c)
    \/ \E c \in Ids(calls), throws \in BOOLEAN: ThenInvoke(c, throws)
    \/ \E c \in Ids(calls), v \in CacheGets, throws \in BOOLEAN:
            CacheGetResolves(c, v, throws)
    \/ \E c \in Ids(calls): CacheGetRejects(c)
    \/ \E c \in Ids(calls), throws \in BOOLEAN: CacheCatch(c, throws)
    \/ \E c \in Ids(calls): \E v \in resultsOf(c): MethodResolves(c, v)
    \/ \E c \in Ids(calls): MethodRejects(c)
    \/ \E c \in Ids(calls): ThenWith(c)
    \/ \E c \in Ids(calls): ThenAfter(c)

CacheSpec == CacheInit /\ [][CacheNext]_vars

\* T has a cache rule and extensions: an after and an afterDetach extension
CacheAfterInit ==
    /\ meta = cache(bind(bind(Defined(TRUE, [AllFull EXCEPT !["E1"] = Plain,
                                                            !["E2"] = Plain]),
                              "after", "T", "E1"), "afterDetach", "T", "E2"),
                    "T", CacheRule(Undefined, Undefined))
    /\ calls = <<>>
    /\ cacheCalls = <<>>
    /\ registry = NoRegistry
    /\ order = NoHistory
    /\ log = <<>>

CacheAfterSpec == CacheAfterInit /\ [][CacheNext]_vars

-----------------------------------------------------------------------------
(* The cache keys of calls *)

\* T and E1 have a cache rule, without keyParams or with keyParams: ['foo']
KeyRegistries ==
    { cache(cache(Defined(TRUE, AllFull), "T", CacheRule(Undefined, keyParams)),
            "E1", CacheRule(Undefined, keyParams)) :
        keyParams \in {Undefined, Arr(<<"foo">>)} }

\* args that differ in foo, in bar and in their sessions
KeyArgs ==
    { Obj([foo |-> foo, bar |-> bar, session |-> Obj([requestId |-> requestId])]) :
        foo \in {Scalar("a"), Scalar("b")}, bar \in {Scalar("a"), Scalar("b")},
        requestId \in {Scalar("r"), Scalar("s")} }
    \cup { Obj([foo |-> Scalar("a"), session |-> EmptyObj]) }

KeyInit ==
    /\ meta \in KeyRegistries
    /\ calls = <<>>
    /\ cacheCalls = <<>>
    /\ registry = NoRegistry
    /\ order = NoHistory
    /\ log = <<>>

\* a call of m with valid args gets to runCached (lines 859-868): the key
\* is made of the args the wrapper has stamped
GetCacheKey(m, args) ==
    LET id == Len(calls) + 1
        call == methodWrapperFunction(id, m, args, 1, "", "", 0, meta)
    IN  /\ Len(calls) < MaxKeys
        /\ call.out = "pending"
        /\ calls' = Append(calls, call)
        /\ cacheCalls' = (id :> getCalled(getCacheKey(call.args, m, meta),
                                          Get(call.args, "session"))) @@ cacheCalls
        /\ UNCHANGED <<meta, registry, order, log>>

KeyNext == \E m \in {"T", "E1"}, args \in KeyArgs: GetCacheKey(m, args)

KeySpec == KeyInit /\ [][KeyNext]_vars

-----------------------------------------------------------------------------
(* Registrations and definitions in any order, then a first call *)

\* an operation of ImmutableCore or of a module handle, before any call:
\* st is the state it ends with
Operation(op, st) ==
    /\ calls = <<>>
    /\ registry.ops < MaxOps
    /\ registry' = [st.registry EXCEPT !.ops = @ + 1, !.op = op,
                                       !.threw = st.threw]
    /\ meta' = st.meta
    /\ UNCHANGED <<calls, cacheCalls, order, log>>

\* ImmutableCore.before(signature, method), .after(...), ...
RegisterBind(bindType, m, bindMethod) ==
    LET st == coreBind(State(registry, meta), bindType, m, bindMethod)
    IN  Operation(<<"bind", bindType, m, bindMethod>>,
                  IF st.threw \/ hasMethod(st, m) THEN st
                  ELSE [st EXCEPT !.registry.queued =
                            @ \cup {<<bindType, m, bindMethod>>}])

\* ImmutableCore.cache(signature, cache)
RegisterCache(m, rule) ==
    Operation(<<"cache", m>>, coreCache(State(registry, meta), m, rule))

\* ImmutableCore.module(name, methods, options)
DefineModule(name, methods, allowOverride) ==
    Operation(<<"module", name, methods, allowOverride>>,
              getModule(State(registry, meta), name, methods, allowOverride))

\* ImmutableCore.method(signature, method, options)
DefineMethod(m, method, allowOverride) ==
    Operation(<<"method", m, method, allowOverride>>,
              getMethod(State(registry, meta), m, method, allowOverride))

\* module.method(methodName, method) on the handle of a defined module
ModuleMethod(m, method) ==
    /\ ModuleOf(m) \in DOMAIN registry.modules
    /\ Operation(<<"module.method", m>>,
                 moduleMethod(State(registry, meta), m, method,
                              registry.modules[ModuleOf(m)].allowOverride))

\* ImmutableCore.allowOverride(allowOverride) (lines 174-183)
AllowOverride(allowOverride) ==
    Operation(<<"allowOverride", allowOverride>>,
              State([registry EXCEPT !.defaultAllowOverride = allowOverride,
                                     !.overridden = @ \/ allowOverride],
                    meta))

\* ImmutableCore.function(functionName, functionObj, options)
DefineFunction(functionName, functionObj, allowOverride) ==
    Operation(<<"function", functionName, functionObj, allowOverride>>,
              getFunction(State(registry, meta), functionName, functionObj,
                          allowOverride))

\* the registrations in the registry reg: the bindings and the cache rules
registered(reg) ==
    {<<"bind", bindType, m, reg.binds[m][bindType][i].method>> :
        <<bindType, m, i>> \in
            {x \in bindTypes \X Methods \X (1..4):
                x[3] <= Len(reg.binds[x[2]][x[1]])}}
    \cup {<<"cache", m>> : m \in {x \in Methods: defined(reg.caches[x])}}

\* A variant of reset that leaves the binding registry as it is.
\* ResetClears does not hold of it
resetKeepsBinds(st) ==
    State([NoRegistry EXCEPT !.binds = st.registry.binds,
                             !.ops = st.registry.ops,
                             !.overridden = st.registry.overridden,
                             !.cleared = registered(st.registry)],
          [m \in Methods |-> Undefined])

\* reset (lib/immutable-core.js lines 673-704): the global options take
\* their defaults and the stores are emptied; no module is left to look a
\* method up in
reset(st) ==
    State([NoRegistry EXCEPT !.ops = st.registry.ops,
                             !.overridden = st.registry.overridden,
                             !.cleared = registered(st.registry)],
          [m \in Methods |-> Undefined])

\* ImmutableCore.reset()
Reset == Operation(<<"reset">>, reset(State(registry, meta)))

\* the extensions E1 and E2 are defined in their module; the target T and
\* its module are not
Extensions ==
    getModule(State(NoRegistry, [m \in Methods |-> Undefined]), "B",
              [m \in {"E1", "E2"} |-> Quiet], Undefined)

\* the args of the first call: valid args of a strict method
FirstArgs == Obj([foo |-> Scalar("a"), session |-> EmptyObj])

RegistryInit ==
    /\ meta = Extensions.meta
    /\ calls = <<>>
    /\ cacheCalls = <<>>
    /\ registry = Extensions.registry
    /\ order = NoHistory
    /\ log = <<>>

RegistryNext ==
    \/ \E bindType \in {"before", "after"}, bindMethod \in {"E1", "E2"}:
            RegisterBind(bindType, "T", bindMethod)
    \/ RegisterCache("T", CacheRule(Undefined, Undefined))
    \/ \E methods \in SUBSET {"T"}:
            DefineModule("A", [m \in methods |-> Quiet], Undefined)
    \/ DefineMethod("T", Quiet, Undefined)
    \/ ModuleMethod("T", Quiet)
    \/ \E allowOverride \in BOOLEAN: AllowOverride(allowOverride)
    \/ Call("T", FirstArgs, 1)
    \/ \E c \in Ids(calls): ThenBefore(c)
    \/ \E c \in Ids(calls): ThenInvoke(c, FALSE)
    \/ \E c \in Ids(calls): CacheGetResolves(c, Null, FALSE)
    \/ \E c \in Ids(calls): \E v \in resultsOf(c): MethodResolves(c, v)
    \/ \E c \in Ids(calls): ThenWith(c)
    \/ \E c \in Ids(calls): ThenAfter(c)

RegistrySpec == RegistryInit /\ [][RegistryNext]_vars

-----------------------------------------------------------------------------
(* Sibling extensions settling in any order *)

\* an implementation that resolves with a mapping or with another value
Mapper == [calls |-> {}, results |-> {Undefined, Scalar("false"), Payload, Other},
           session |-> FALSE, fails |-> FALSE]

\* E1 and E2 are bound to T as siblings of one relation, in this order
Siblings(bindType) ==
    bind(bind(Defined(TRUE, [m \in Methods |-> Mapper]),
         bindType, "T", "E1"), bindType, "T", "E2")

\* the history of the settlements is kept
OrderInit ==
    /\ meta \in {Siblings(bindType): bindType \in {"before", "with", "after"}}
    /\ calls = <<>>
    /\ cacheCalls = <<>>
    /\ registry = NoRegistry
    /\ order = [on |-> TRUE, seq |-> <<>>]
    /\ log = <<>>

OrderNext ==
    \/ Call("T", FirstArgs, 1)
    \/ \E c \in Ids(calls): ThenBefore(c)
    \/ \E c \in Ids(calls): ThenInvoke(c, FALSE)
    \/ \E c \in Ids(calls): \E v \in resultsOf(c): MethodResolves(c, v)
    \/ \E c \in Ids(calls): ThenWith(c)
    \/ \E c \in Ids(calls): ThenAfter(c)

OrderSpec == OrderInit /\ [][OrderNext]_vars

-----------------------------------------------------------------------------
(* Calls of methods with a logClient *)

\* the methods of mt defined with a logClient (the logClient option)
withLogClient(mt) ==
    [m \in Methods |-> [mt[m] EXCEPT !.logClient = Scalar("logClient")]]

\* T calls E1 (src/test/log.js: foo calls bar); a before, a with and an
\* after extension
LogRegistries ==
    { withLogClient(Defined(TRUE, [[m \in Methods |-> Plain]
                                      EXCEPT !["T"] = Caller({"E1"})])),
      withLogClient(bind(bind(bind(Defined(TRUE, [m \in Methods |-> Plain]),
           "before", "T", "E1"), "with", "T", "E2"), "after", "T", "E3")) }

\* valid args, without and with the noLogging flag on the session
LogArgs ==
    { FirstArgs,
      Obj([foo |-> Scalar("a"), session |-> Obj([noLogging |-> Scalar("true")])]) }

LogInit ==
    /\ meta \in LogRegistries
    /\ calls = <<>>
    /\ cacheCalls = <<>>
    /\ registry = NoRegistry
    /\ order = NoHistory
    /\ log = <<>>

LogNext ==
    \/ \E args \in LogArgs: Call("T", args, 1)
    \/ \E c \in Ids(calls): ThenBefore(c)
    \/ \E c \in Ids(calls), throws \in BOOLEAN: ThenInvoke(c, throws)
    \/ \E c \in Ids(calls), m \in Methods: MethodCalls(c, m)
    \/ \E c \in Ids(calls): \E v \in resultsOf(c): MethodResolves(c, v)
    \/ \E c \in Ids(calls): MethodRejects(c)
    \/ \E c \in Ids(calls): ThenWith(c)
    \/ \E c \in Ids(calls): ThenAfter(c)
    \/ \E c \in Ids(calls): PromiseAllRejects(c)

LogSpec == LogInit /\ [][LogNext]_vars

-----------------------------------------------------------------------------
(* Logged calls of a method whose before extensions resolve with a session *)

\* E1 and E2 are bound before T and E3 after it; E1 and E2 resolve with
\* nothing, with a mapping or with {session: args.session}; every method
\* has a logClient
SessionRegistry ==
    withLogClient(
        bind(bind(bind(
            Defined(TRUE, [[m \in Methods |-> Quiet] EXCEPT
                !["T"] = [Quiet EXCEPT !.results = {Undefined, Payload}],
                !["E1"] = [Quiet EXCEPT !.results = {Undefined, Other},
                                        !.session = TRUE],
                !["E2"] = [Quiet EXCEPT !.session = TRUE]]),
            "before", "T", "E1"), "before", "T", "E2"), "after", "T", "E3"))

SessionInit ==
    /\ meta = SessionRegistry
    /\ calls = <<>>
    /\ cacheCalls = <<>>
    /\ registry = NoRegistry
    /\ order = NoHistory
    /\ log = <<>>

SessionNext ==
    \/ \E args \in LogArgs: Call("T", args, 1)
    \/ \E c \in Ids(calls): ThenBefore(c)
    \/ \E c \in Ids(calls): ThenInvoke(c, FALSE)
    \/ \E c \in Ids(calls): \E v \in resultsOf(c): MethodResolves(c, v)
    \/ \E c \in Ids(calls): ThenWith(c)
    \/ \E c \in Ids(calls): ThenAfter(c)

SessionSpec == SessionInit /\ [][SessionNext]_vars

-----------------------------------------------------------------------------
(* Calls of a method that is a member of an after chain *)

\* E1 is bound after T and afterDetach to T
ChainRegistry ==
    bind(bind(Defined(TRUE, [[m \in Methods |-> Quiet] EXCEPT
                !["T"] = [calls |-> {}, results |-> {Undefined, Null, Payload},
                          session |-> FALSE, fails |-> FALSE]]),
              "after", "T", "E1"), "afterDetach", "T", "E1")

\* the args runAfter calls the second and the third member of an after
\* chain with, for the results of the members before it
ChainArgs ==
    { afterArgs(FirstArgs, r1) : r1 \in Results }
    \cup { afterArgs(afterArgs(FirstArgs, r1), r2) : r1, r2 \in Results }

ChainInit ==
    /\ meta = ChainRegistry
    /\ calls = <<>>
    /\ cacheCalls = <<>>
    /\ registry = NoRegistry
    /\ order = NoHistory
    /\ log = <<>>

\* runAfter of the member of the chain before T calls T:
\* (method)(args, methodMeta.signature, 'after')
CallAfter(m, args, bindSignature) ==
    /\ calls = <<>>
    /\ calls' = <<methodWrapperFunction(1, m, args, 3, bindSignature, "after",
                                        0, meta)>>
    /\ order' = recorded(calls')
    /\ UNCHANGED <<meta, registry, cacheCalls, log>>

ChainNext ==
    \/ Call("T", FirstArgs, 1)
    \/ \E args \in ChainArgs: CallAfter("T", args, "E2")
    \/ \E c \in Ids(calls): ThenBefore(c)
    \/ \E c \in Ids(calls): ThenInvoke(c, FALSE)
    \/ \E c \in Ids(calls): \E v \in resultsOf(c): MethodResolves(c, v)
    \/ \E c \in Ids(calls): ThenWith(c)
    \/ \E c \in Ids(calls): ThenAfter(c)

ChainSpec == ChainInit /\ [][ChainNext]_vars

-----------------------------------------------------------------------------
(* Calls of a method with the freeze option *)

\* T resolves with an object of its own or with a part of its args; E1 is
\* bound after T
FreezeRegistry ==
    bind(Defined(TRUE, [[m \in Methods |-> Quiet] EXCEPT
            !["T"] = [calls |-> {}, results |-> {Undefined, Payload},
                      session |-> TRUE, fails |-> FALSE]]),
         "after", "T", "E1")

\* T is defined in a module: the global default (ImmutableCore.freeze()),
\* the option of the module and the option of the definition are any
FreezeInit ==
    /\ \E d \in {True, False}, mo \in Options, me \in Options:
        LET defaults == [validateArgs |-> True, validateReturn |-> True,
                         freeze |-> d]
            given == [validateArgs |-> Undefined, validateReturn |-> Undefined,
                      freeze |-> mo]
            options == [validateArgs |-> Undefined, validateReturn |-> Undefined,
                        freeze |-> me]
        IN  /\ meta = [FreezeRegistry EXCEPT !["T"] =
                        methodOptions(@, NoSchema, options,
                                      getValidOptions(given, defaults))]
            /\ registry = [NoRegistry EXCEPT !.ops = 1,
                            !.op = [defaults |-> defaults, module |-> given,
                                    method |-> options]]
    /\ calls = <<>>
    /\ cacheCalls = <<>>
    /\ order = NoHistory
    /\ log = <<>>

FreezeNext ==
    \/ Call("T", FirstArgs, 1)
    \/ \E c \in Ids(calls): ThenBefore(c)
    \/ \E c \in Ids(calls): ThenInvoke(c, FALSE)
    \/ \E c \in Ids(calls): \E v \in resultsOf(c): MethodResolves(c, v)
    \/ \E c \in Ids(calls): ThenWith(c)
    \/ \E c \in Ids(calls): ThenAfter(c)

FreezeSpec == FreezeInit /\ [][FreezeNext]_vars

-----------------------------------------------------------------------------
(* Names and signatures: require-valid-name.js, get-valid-signature.js *)

\* a string, as the sequence of its characters
Str(s) == [t |-> "string", s |-> s]

\* the characters of the names tried: a letter and the dot
Chars == {"a", "."}

\* the strings of at most n characters
Strings(n) == UNION {[1..k -> Chars] : k \in 0..n}

\* the keys of reservedNames
reservedNames ==
    { <<"a", "s", "s", "e", "r", "t">>, <<"b", "i", "n", "d">>,
      <<"c", "a", "c", "h", "e">>, <<"d", "a", "t", "a">>,
      <<"e", "r", "r", "o", "r">>, <<"m", "e", "t", "a">>,
      <<"m", "e", "t", "h", "o", "d">>, <<"m", "o", "d", "u", "l", "e">> }

\* a property every object has, reservedNames too
inheritedNames == { <<"c", "o", "n", "s", "t", "r", "u", "c", "t", "o", "r">> }

\* A variant of requireValidName without the check for a dot.
\* NamesValid does not hold of it
requireValidNameNoDot(name) ==
    /\ name.t = "string" /\ Len(name.s) > 0
    /\ name.s \notin reservedNames \cup inheritedNames

\* requireValidName returns (TRUE) or throws (FALSE)
requireValidName(name) ==
    /\ name.t = "string" /\ Len(name.s) > 0
    /\ \A i \in DOMAIN name.s: name.s[i] # "."
    /\ name.s \notin reservedNames \cup inheritedNames

\* signature.split('.')
RECURSIVE split(_)
split(s) ==
    IF \A i \in DOMAIN s: s[i] # "." THEN <<s>>
    ELSE LET i == CHOOSE j \in DOMAIN s:
                    s[j] = "." /\ \A k \in 1..(j - 1): s[k] # "."
         IN  <<SubSeq(s, 1, i - 1)>> \o split(SubSeq(s, i + 1, Len(s)))

\* getValidSignature: the parts of the signature, or it throws (ok FALSE)
getValidSignature(signature) ==
    LET parts == split(signature.s)
        none == [ok |-> FALSE, moduleName |-> Undefined, methodName |-> Undefined]
    IN  IF signature.t # "string" THEN none
        ELSE IF Len(parts) # 2 THEN none
        ELSE IF ~requireValidName(Str(parts[1])) THEN none
        ELSE IF ~requireValidName(Str(parts[2])) THEN none
        ELSE [ok |-> TRUE, moduleName |-> Str(parts[1]),
              methodName |-> Str(parts[2])]

\* the method of the module (part_015 lines 319-333), for a module kept
\* under its name with the names of its methods
namedModuleMethod(st, name, methodName) ==
    LET module == st.registry.modules[name]
    IN  IF ~requireValidName(methodName) THEN Throw(st)
        ELSE IF ~module.allowOverride /\ methodName \in module.methods
        THEN Throw(st)
        ELSE [st EXCEPT !.registry.modules[name].methods = @ \cup {methodName}]

\* getModule (lib/immutable-core.js lines 531-560) with the names of the
\* methods, the keys of an object, in `methods`
RECURSIVE namedMethods(_, _, _)
namedMethods(st, name, methods) ==
    IF methods = <<>> \/ st.threw THEN st
    ELSE namedMethods(namedModuleMethod(st, name, Head(methods)), name,
                      Tail(methods))

getNamedModule(st, name, methods) ==
    LET allow == st.registry.defaultAllowOverride
    IN  IF ~requireValidName(name) THEN Throw(st)
        ELSE IF name \in DOMAIN st.registry.modules /\ ~allow THEN Throw(st)
        ELSE namedMethods(
                [st EXCEPT !.registry.modules =
                    [n \in DOMAIN @ \cup {name} |->
                        IF n = name
                        THEN [allowOverride |-> allow, methods |-> {}]
                        ELSE @[n]]],
                name, methods)

\* getMethod (lib/immutable-core.js lines 483-511) by signature
getNamedMethod(st, signature) ==
    LET valid == getValidSignature(signature)
    IN  IF ~valid.ok THEN Throw(st)
        ELSE IF valid.moduleName \notin DOMAIN st.registry.modules THEN Throw(st)
        ELSE namedModuleMethod(st, valid.moduleName, valid.methodName)

\* what is given as a name: strings, reserved words, values of other types
Names ==
    { Str(s) : s \in Strings(MaxLen) \cup {<<"m", "e", "t", "a">>, <<"b", "i", "n", "d">>} }
    \cup { Undefined, Null, EmptyObj }

\* what is given as a signature
Signatures ==
    { Str(s) : s \in Strings(MaxLen + 1)
                     \cup {<<"a", ".", "m", "e", "t", "a">>,
                           <<"b", "i", "n", "d", ".", "a">>} }
    \cup { Undefined, EmptyObj }

\* a definition under a name
Named(op, st) ==
    /\ registry.ops < MaxNames
    /\ registry' = [st.registry EXCEPT !.ops = @ + 1, !.op = op,
                                       !.threw = st.threw]
    /\ UNCHANGED <<meta, calls, cacheCalls, order, log>>

\* ImmutableCore.module(name, methods)
NamedModule(name, methods) ==
    Named(<<"module">>,
          getNamedModule(State(registry, meta), name, methods))

\* ImmutableCore.method(signature, method)
NamedMethod(signature) ==
    Named(<<"method", signature>>,
          getNamedMethod(State(registry, meta), signature))

\* module.method(methodName, method) on the handle of a defined module
NamedModuleMethod(name, methodName) ==
    /\ name \in DOMAIN registry.modules
    /\ Named(<<"module.method">>,
             namedModuleMethod(State(registry, meta), name, methodName))

NameInit ==
    /\ meta = [m \in Methods |-> Undefined]
    /\ calls = <<>>
    /\ cacheCalls = <<>>
    /\ registry = NoRegistry
    /\ order = NoHistory
    /\ log = <<>>

NameNext ==
    \/ \E name \in Names,
          methods \in {<<>>} \cup {<<n>> : n \in {k \in Names: k.t = "string"}}:
            NamedModule(name, methods)
    \/ \E signature \in Signatures: NamedMethod(signature)
    \/ \E name \in DOMAIN registry.modules, methodName \in Names:
            NamedModuleMethod(name, methodName)

NameSpec == NameInit /\ [][NameNext]_vars

-----------------------------------------------------------------------------
(* Definitions, redefinitions and resets *)

\* the functions given as a method or as a function
Functionals == {Quiet, Plain}

\* module A with T and module B with E1 are defined
Modules ==
    getModule(getModule(State(NoRegistry, [m \in Methods |-> Undefined]),
                        "B", [m \in {"E1"} |-> Quiet], Undefined),
              "A", [m \in {"T"} |-> Quiet], Undefined)

DefineInit ==
    /\ meta = Modules.meta
    /\ calls = <<>>
    /\ cacheCalls = <<>>
    /\ registry = Modules.registry
    /\ order = NoHistory
    /\ log = <<>>

DefineNext ==
    \/ \E method \in Functionals, allowOverride \in {Undefined, True}:
            DefineModule("A", [m \in {"T"} |-> method], allowOverride)
    \/ DefineModule("B", [m \in {"E1"} |-> Quiet], Undefined)
    \/ \E method \in Functionals, allowOverride \in {Undefined, True}:
            DefineMethod("T", method, allowOverride)
    \/ \E functionObj \in Functionals, allowOverride \in {Undefined, True}:
            DefineFunction("f", functionObj, allowOverride)
    \/ AllowOverride(TRUE)
    \/ RegisterBind("before", "T", "E1")
    \/ RegisterCache("T", CacheRule(Undefined, Undefined))
    \/ Reset

DefineSpec == DefineInit /\ [][DefineNext]_vars

-----------------------------------------------------------------------------
(* Calls of a method with an args schema and a return schema *)

\* the schemas of src/test/validate-args.js and validate-return.js: foo is
\* required
FooSchema == [args |-> Schema({"foo"}), return |-> Schema({"foo"})]

\* T resolves with undefined or with an object that has foo, or fails; E1
\* is bound before T
ValidateRegistry ==
    bind(Defined(TRUE, [[m \in Methods |-> Plain] EXCEPT
            !["T"] = [calls |-> {}, results |-> {Undefined, Payload},
                      session |-> FALSE, fails |-> TRUE]]),
         "before", "T", "E1")

\* args with foo, args without foo, args that are no object
ValidateArgs == { FirstArgs, Obj([session |-> EmptyObj]), Scalar("a") }

\* T is defined with the schemas in a module: the global defaults
\* (ImmutableCore.validateArgs(), .validateReturn()), the options of the
\* module and the options of the definition are any
ValidateInit ==
    /\ \E dA \in {True, False}, dR \in {True, False}, moR \in Options, meR \in Options:
        LET defaults == [validateArgs |-> dA, validateReturn |-> dR,
                         freeze |-> True]
            given == [validateArgs |-> Undefined, validateReturn |-> moR,
                      freeze |-> Undefined]
            options == [validateArgs |-> Undefined, validateReturn |-> meR,
                        freeze |-> Undefined]
        IN  /\ meta = [ValidateRegistry EXCEPT !["T"] =
                        methodOptions(@, FooSchema, options,
                                      getValidOptions(given, defaults))]
            /\ registry = [NoRegistry EXCEPT !.ops = 1,
                            !.op = [defaults |-> defaults, module |-> given,
                                    method |-> options]]
    /\ calls = <<>>
    /\ cacheCalls = <<>>
    /\ order = NoHistory
    /\ log = <<>>

ValidateNext ==
    \/ \E args \in ValidateArgs, nargs \in 1..2: Call("T", args, nargs)
    \/ \E c \in Ids(calls): ThenBefore(c)
    \/ \E c \in Ids(calls), throws \in BOOLEAN: ThenInvoke(c, throws)
    \/ \E c \in Ids(calls): \E v \in resultsOf(c): MethodResolves(c, v)
    \/ \E c \in Ids(calls): MethodRejects(c)
    \/ \E c \in Ids(calls): ThenWith(c)
    \/ \E c \in Ids(calls): ThenAfter(c)
    \/ \E c \in Ids(calls): PromiseAllRejects(c)

ValidateSpec == ValidateInit /\ [][ValidateNext]_vars

-----------------------------------------------------------------------------
(* Options: global defaults, options of a module, options of a definition *)

\* the options followed from the defaults to the method
optionNames == {"allowOverride", "freeze", "validateArgs", "validateReturn"}

\* the options given to a definition: none, or one of them, set or unset
OptionsGiven ==
    { [k \in optionNames |-> IF k = given THEN v ELSE Undefined] :
        given \in optionNames \cup {""}, v \in {True, False} }

\* the defaults after reset (lib/immutable-core.js lines 683-693)
resetOptions ==
    [allowOverride |-> False, freeze |-> True, validateArgs |-> True,
     validateReturn |-> True]

\* getModule with options and no methods (lib/immutable-core.js lines
\* 531-560): the options of the module are the options given, with the
\* defaults of the moment for those not given
optionsModule(st, name, options) ==
    LET valid == getValidOptions(options, st.registry.defaults)
    IN  IF name \in DOMAIN st.registry.modules /\ ~Truthy(valid.allowOverride)
        THEN Throw(st)
        ELSE [st EXCEPT
                !.registry.modules =
                    [n \in DOMAIN @ \cup {name} |->
                        IF n = name THEN [options |-> valid] ELSE @[n]],
                !.registry.created =
                    [given |-> options, defaults |-> st.registry.defaults],
                !.meta = [m \in Methods |->
                            IF ModuleOf(m) = name THEN Undefined ELSE @[m]]]

\* getMethod with options (lib/immutable-core.js lines 483-511) and the
\* method of the module (part_015 lines 319-399)
optionsMethod(st, m, method, options) ==
    IF ModuleOf(m) \notin DOMAIN st.registry.modules THEN Throw(st)
    ELSE LET moduleOptions == st.registry.modules[ModuleOf(m)].options
             allowOverride == IF defined(options.allowOverride)
                              THEN options.allowOverride
                              ELSE moduleOptions.allowOverride
         IN  IF ~Truthy(allowOverride) /\ st.meta[m] # Undefined THEN Throw(st)
             ELSE [st EXCEPT !.meta[m] =
                        methodOptions(methodMeta(TRUE, method), NoSchema,
                                      options, moduleOptions)]

\* ImmutableCore.allowOverride(v), .freeze(v), .validateArgs(v),
\* .validateReturn(v): the default is set to v ? true : false
SetDefault(optionName, v) ==
    Operation(<<"default", optionName, v>>,
              State([registry EXCEPT !.defaults[optionName] = Bool(v)], meta))

\* ImmutableCore.module('A', {}, options)
OptionsModule(options) ==
    Operation(<<"module", options>>,
              optionsModule(State(registry, meta), "A", options))

\* ImmutableCore.method('A.T', method, options): the options given, the
\* defaults of the moment and whether T is defined are kept for the record
OptionsMethod(options) ==
    /\ "A" \in DOMAIN registry.modules
    /\ Operation(<<"method", options>>,
                 optionsMethod(
                    State([registry EXCEPT !.defined =
                                [given |-> options, defaults |-> registry.defaults,
                                 existed |-> meta["T"] # Undefined]],
                          meta),
                    "T", Quiet, options))

\* after reset: no module, the defaults of reset
OptionsInit ==
    /\ meta = [m \in Methods |-> Undefined]
    /\ calls = <<>>
    /\ cacheCalls = <<>>
    /\ registry = [defaults |-> resetOptions,
                   created |-> [given |-> resetOptions, defaults |-> resetOptions],
                   defined |-> [given |-> resetOptions, defaults |-> resetOptions,
                                existed |-> FALSE]]
                  @@ NoRegistry
    /\ order = NoHistory
    /\ log = <<>>

OptionsNext ==
    \/ \E optionName \in optionNames, v \in {True, False}:
            SetDefault(optionName, v)
    \/ \E options \in OptionsGiven: OptionsModule(options)
    \/ \E options \in OptionsGiven: OptionsMethod(options)

OptionsSpec == OptionsInit /\ [][OptionsNext]_vars

-----------------------------------------------------------------------------
(* Calls of a validated method with extensions or with a cache rule *)

\* T has the schemas, and argument and return validation are enabled; it
\* resolves with an object that has foo.  Either E1 is bound with T and E2
\* after it, or T has a cache rule
ReturnRegistries ==
    LET defined0 == Defined(TRUE, [AllFull EXCEPT
                        !["T"] = [Quiet EXCEPT !.results = {Payload}],
                        !["E1"] = [Full EXCEPT !.fails = FALSE],
                        !["E2"] = [Full EXCEPT !.fails = FALSE]])
        options == [validateArgs |-> True, validateReturn |-> True,
                    freeze |-> True]
        validated == [defined0 EXCEPT !["T"] =
                        methodOptions(@, FooSchema, options, options)]
    IN  { bind(bind(validated, "with", "T", "E1"), "after", "T", "E2"),
          cache(validated, "T", CacheRule(Undefined, Undefined)) }

ReturnInit ==
    /\ meta \in ReturnRegistries
    /\ calls = <<>>
    /\ cacheCalls = <<>>
    /\ registry = NoRegistry
    /\ order = NoHistory
    /\ log = <<>>

ReturnNext ==
    \/ Call("T", FirstArgs, 1)
    \/ \E c \in Ids(calls): ThenBefore(c)
    \/ \E c \in Ids(calls): ThenInvoke(c, FALSE)
    \/ \E c \in Ids(calls), v \in CacheGets: CacheGetResolves(c, v, FALSE)
    \/ \E c \in Ids(calls): \E v \in resultsOf(c): MethodResolves(c, v)
    \/ \E c \in Ids(calls): ThenWith(c)
    \/ \E c \in Ids(calls): ThenAfter(c)

ReturnSpec == ReturnInit /\ [][ReturnNext]_vars

-----------------------------------------------------------------------------
(* Properties of the pipeline *)

\* the calls that call c made as bindType
KidsOf(c, bindType) == Kids(calls, c, bindType)

\* v is a mapping: a plain object
IsMapping(v) == v.t = "object"

\* the wrapper of call c got past the checks of its arguments
Accepted(c) == calls[c].args # Undefined

\* C1: the implementation of a call is not invoked until every before
\* extension bound to its method has been called and has resolved; no after
\* and no afterDetach extension is called until the implementation has
\* resolved and every with extension has resolved; the call does not resolve
\* until every after extension has been called and has resolved.
StagesInOrder ==
    \A c \in Ids(calls):
        LET binds == meta[calls[c].method].bind
        IN  /\ calls[c].impl # "none" =>
                /\ Len(KidsOf(c, "before")) = Len(binds.before)
                /\ \A k \in Range(KidsOf(c, "before")): calls[k].out = "resolved"
            /\ (KidsOf(c, "after") # <<>> \/ KidsOf(c, "afterDetach") # <<>>) =>
                /\ calls[c].impl = "resolved"
                /\ Len(KidsOf(c, "with")) = Len(binds.with)
                /\ \A k \in Range(KidsOf(c, "with")): calls[k].out = "resolved"
            /\ calls[c].out = "resolved" =>
                /\ calls[c].impl = "resolved"
                /\ Len(KidsOf(c, "after")) = Len(binds.after)
                /\ \A k \in Range(KidsOf(c, "after")): calls[k].out = "resolved"

\* a call with a before, a with and an after extension has resolved
StagesInOrderWitness ==
    \E c \in Ids(calls):
        /\ calls[c].out = "resolved"
        /\ KidsOf(c, "before") # <<>>
        /\ KidsOf(c, "with") # <<>>
        /\ KidsOf(c, "after") # <<>>

\* C2: once a before extension of a call has rejected (its promise rejected
\* or its implementation threw), the implementation of the call is not
\* invoked, none of its with, withDetach, after and afterDetach extensions
\* is called, the call does not resolve, and when it rejects it rejects with
\* the error of a before extension that rejected.
BeforeRejectionStops ==
    \A c \in Ids(calls):
        LET rejected == {k \in Range(KidsOf(c, "before")): calls[k].out = "rejected"}
        IN  rejected # {} =>
                /\ calls[c].impl = "none"
                /\ \A t \in {"with", "withDetach", "after", "afterDetach"}:
                        KidsOf(c, t) = <<>>
                /\ calls[c].out # "resolved"
                /\ calls[c].out = "rejected" =>
                        \E k \in rejected: calls[c].outVal = calls[k].outVal

\* a call has rejected with the error its second before extension threw,
\* its first before extension having rejected later
BeforeRejectionStopsWitness ==
    \E c \in Ids(calls):
        LET kids == KidsOf(c, "before")
        IN  /\ Len(kids) = 2
            /\ calls[kids[1]].outVal = Error("rejected", kids[1])
            /\ calls[kids[2]].outVal = Error("thrown", kids[2])
            /\ calls[c].out = "rejected"
            /\ calls[c].outVal = calls[kids[2]].outVal

\* the args of call c with the results of its first n before extensions
\* merged in, in the order of the bind list
RECURSIVE BeforeFold(_, _)
BeforeFold(c, n) ==
    IF n = 0 THEN calls[c].ctxArgs
    ELSE LET result == calls[KidsOf(c, "before")[n]].outVal
         IN  IF IsMapping(result) THEN merge(BeforeFold(c, n - 1), result)
             ELSE BeforeFold(c, n - 1)

FoldRule(res, result) ==
    IF IsMapping(res) /\ IsMapping(result) THEN merge(res, result)
    ELSE IF result.t # "undefined" THEN result
    ELSE res

\* the left fold of the results of the first n calls of kids over res
RECURSIVE ResultFold(_, _, _)
ResultFold(res, kids, n) ==
    IF n = 0 THEN res
    ELSE FoldRule(ResultFold(res, kids, n - 1), calls[kids[n]].outVal)

Detached(c, d) == calls[d].parent = c /\ calls[d].bindType \in detachBindTypes

\* C5: no step of a beforeDetach, withDetach or afterDetach extension call
\* (it starts, it resolves, it rejects, it throws) changes anything of the
\* call of its target: the target's outcome is the one it has when the
\* detached extension never settles.
DetachedNeverDecides ==
    [][\A c \in Ids(calls): \A d \in Ids(calls):
            (Detached(c, d) /\ calls'[d] # calls[d]) => calls'[c] = calls[c]]_vars

\* a call has resolved while one of its detached extensions has rejected,
\* another has thrown and a third is pending
DetachedNeverDecidesWitness ==
    \E c \in Ids(calls):
        /\ calls[c].out = "resolved"
        /\ \E d \in Ids(calls): Detached(c, d) /\ calls[d].out = "pending"
        /\ \E d \in Ids(calls): Detached(c, d) /\ calls[d].outVal = Error("rejected", d)
        /\ \E d \in Ids(calls): Detached(c, d) /\ calls[d].outVal = Error("thrown", d)

\* the stack of the session in args, empty when there is none
StackOf(args) ==
    LET stack == Get(Get(args, "session"), "stack")
    IN  IF stack.t = "array" THEN stack.a ELSE <<>>

\* C6: the session.stack the implementation of a call observes is the stack
\* of the session the call was made with followed by the frame of the call
\* itself, and the stack of the caller's object is the one it passed.
StackIsOwnPath ==
    \A c \in Ids(calls):
        /\ calls[c].impl # "none" =>
                StackOf(calls[c].implArgs) =
                    Append(StackOf(calls[c].passedArgs), stackFrame(calls[c]))
        /\ StackOf(calls[c].callerArgs) = StackOf(calls[c].passedArgs)

\* the first call of the chain of after bindings that call e ends
RECURSIVE ChainHead(_)
ChainHead(e) ==
    IF calls[e].bindType = "after" THEN ChainHead(calls[e].parent) ELSE e

\* C7: in a chain of after bindings, an extension called after an extension
\* receives as res the value its own target resolved with and as origRes
\* the value the first method of the chain resolved with.
ChainOrigRes ==
    \A e \in Ids(calls):
        (calls[e].bindType = "after" /\ calls[calls[e].parent].bindType = "after") =>
            /\ Get(calls[e].passedArgs, "res") = calls[calls[e].parent].res
            /\ Get(calls[e].passedArgs, "origRes") = calls[ChainHead(e)].res

\* C8: an extension bound after a target that was called directly receives
\* origRes equal to res, the value the target resolved with.
DirectOrigResIsRes ==
    \A e \in Ids(calls):
        (calls[e].bindType = "after" /\ calls[calls[e].parent].bindType = "") =>
            /\ Get(calls[e].passedArgs, "res") = calls[calls[e].parent].res
            /\ Get(calls[e].passedArgs, "origRes") = Get(calls[e].passedArgs, "res")

\* C9: the object a call was made with has, whatever the call did, the
\* keys and values it was passed with.
CallerArgsUntouched ==
    \A c \in Ids(calls): calls[c].callerArgs = calls[c].passedArgs

\* call c was made with no argument, with an argument that is no mapping,
\* with args whose session is no mapping, or with more than one argument
BadCall(c) ==
    \/ calls[c].nargs # 1
    \/ ~IsMapping(calls[c].passedArgs)
    \/ ~IsMapping(Get(calls[c].passedArgs, "session"))

\* the args the pipeline of call c starts with when what is missing of the
\* args it was made with is put in as empty mappings
Synthesized(c) ==
    LET passed == calls[c].passedArgs
        args == IF IsMapping(passed) THEN passed ELSE EmptyObj
        session == IF IsMapping(Get(args, "session")) THEN Get(args, "session")
                   ELSE EmptyObj
        stamps == [stack |-> Arr(<<stackFrame(calls[c])>>),
                   moduleCallId |-> Id(c),
                   moduleCallSignature |-> Sig(calls[c].method)]
    IN  Put(args, "session",
            Obj([k \in DOMAIN session.f \cup DOMAIN stamps |->
                    IF k \in DOMAIN stamps THEN stamps[k] ELSE session.f[k]]))

-----------------------------------------------------------------------------
(* Properties of the cached path *)

\* the calls of set and setex the cached path of call c has made when its
\* implementation resolved: none for null, else one, setex when the rule
\* has an expiry, under the key and with the session of the call of get
Persisted(c) ==
    LET path == cacheCalls[c]
        rule == meta[calls[c].method].cache
        res == calls[c].implRes
    IN  IF res.t = "null" THEN <<>>
        ELSE IF rule.expire.t # "undefined"
        THEN << [op |-> "setex", key |-> path.key, value |-> res,
                 expire |-> rule.expire, session |-> path.session] >>
        ELSE << [op |-> "set", key |-> path.key, value |-> res,
                 expire |-> Undefined, session |-> path.session] >>

\* the implementation of call c was invoked on the cached path, and its
\* result is the result of the call and is persisted
RanAsMiss(c) ==
    /\ cacheCalls[c].invoked >= 1
    /\ calls[c].impl # "none"
    /\ cacheCalls[c].sets = IF calls[c].impl = "resolved" THEN Persisted(c) ELSE <<>>
    /\ calls[c].pc = "with" => calls[c].impl = "resolved" /\ calls[c].res = calls[c].implRes
    /\ calls[c].out = "resolved" =>
            calls[c].impl = "resolved" /\ calls[c].outVal = calls[c].implRes

\* C11: when cacheClient.get has resolved with a value (neither null nor
\* undefined), the implementation of the call is not invoked, neither set
\* nor setex is called, and the result of the call is the cached value,
\* with the key as _cached when the value is a mapping.
CacheHitSkipsMethod ==
    \A c \in DOMAIN cacheCalls:
        LET path == cacheCalls[c]
            hit == IF path.got.t = "object"
                   THEN Obj([k \in DOMAIN path.got.f \cup {"_cached"} |->
                                IF k = "_cached" THEN path.key ELSE path.got.f[k]])
                   ELSE path.got
        IN  (path.get = "resolved" /\ path.got.t \notin {"null", "undefined"}) =>
                /\ calls[c].impl = "none"
                /\ path.invoked = 0
                /\ path.sets = <<>>
                /\ calls[c].pc = "with" => calls[c].res = hit
                /\ calls[c].out = "resolved" => calls[c].outVal = hit

\* a call has resolved with a cached mapping
CacheHitSkipsMethodWitness ==
    \E c \in DOMAIN cacheCalls:
        /\ cacheCalls[c].got = Payload
        /\ calls[c].out = "resolved"
        /\ Get(calls[c].outVal, "_cached") = cacheCalls[c].key
        /\ Get(calls[c].outVal, "foo") = Scalar("a")

\* C12: when cacheClient.get has resolved with null, the implementation is
\* invoked, the call resolves with the result of the implementation, and
\* the result is persisted exactly when it is not null: by setex with the
\* expiry of the rule when it has one, else by set, under the key and with
\* the session get was called with.
CacheMissPersists ==
    \A c \in DOMAIN cacheCalls:
        (cacheCalls[c].get = "resolved" /\ cacheCalls[c].got = Null) => RanAsMiss(c)

\* after a miss a call has resolved with a result that setex has persisted
CacheMissPersistsWitness ==
    \E c \in DOMAIN cacheCalls:
        /\ cacheCalls[c].got = Null
        /\ cacheCalls[c].get = "resolved"
        /\ calls[c].out = "resolved"
        /\ calls[c].outVal = Payload
        /\ Len(cacheCalls[c].sets) = 1
        /\ cacheCalls[c].sets[1].op = "setex"
        /\ cacheCalls[c].sets[1].value = Payload

\* C13: when cacheClient.get has rejected, the call does not reject with
\* the error of get; once the rejection is handled the implementation has
\* been invoked, once, its result is the result of the call and is
\* persisted as after a miss.
CacheGetErrorIsMiss ==
    \A c \in DOMAIN cacheCalls:
        cacheCalls[c].get = "rejected" =>
            /\ calls[c].out = "rejected" =>
                    calls[c].outVal \in {Error("rejected", c), Error("thrown", c)}
            /\ IF cacheCalls[c].handler = "catch"
               THEN RanAsMiss(c) /\ cacheCalls[c].invoked = 1
               ELSE calls[c].out = "pending" /\ calls[c].impl = "none"

\* get rejected and the call has resolved with a result that set has
\* persisted
CacheGetErrorIsMissWitness ==
    \E c \in DOMAIN cacheCalls:
        /\ cacheCalls[c].get = "rejected"
        /\ calls[c].out = "resolved"
        /\ calls[c].outVal = Scalar("false")
        /\ Len(cacheCalls[c].sets) = 1
        /\ cacheCalls[c].sets[1].op = "set"

\* C14: when cacheClient.get has resolved with undefined, the
\* implementation is invoked as it is when get has resolved with null.
AbsentIsMiss ==
    \A c \in DOMAIN cacheCalls:
        (cacheCalls[c].get = "resolved" /\ cacheCalls[c].got = Undefined) =>
            /\ cacheCalls[c].invoked >= 1
            /\ calls[c].impl # "none"

-----------------------------------------------------------------------------
(* Properties of the registry *)

\* the entries registered for T as bindType, in the order of the registry
Entries(bindType) == registry.binds["T"][bindType]

\* the methods that call c has called as bindType, in the order of the calls
Started(c, bindType) ==
    [i \in DOMAIN KidsOf(c, bindType) |-> calls[KidsOf(c, bindType)[i]].method]

\* the first call of T has started its before extensions
FirstCallStarted ==
    /\ calls # <<>>
    /\ calls[1].pc \notin {"entered"}
    /\ calls[1].ctxArgs # Undefined

\* C15: a binding registered before its target exists is not lost: by
\* whichever operation the target was defined (override never enabled),
\* the first call of the target runs every extension registered for it
QueuedBindRuns ==
    ~registry.overridden /\ FirstCallStarted =>
        \A bindMethod \in Methods:
            <<"before", "T", bindMethod>> \in registry.queued
                => bindMethod \in Range(Started(1, "before"))

\* C16: a cache rule registered before its method exists is applied when
\* the method is defined, by module definition or by method definition: the
\* first call goes through the cached path
QueuedCacheRuns ==
    /\ ~registry.overridden
    /\ calls # <<>>
    /\ calls[1].pc \notin {"entered", "before"}
    /\ defined(registry.caches["T"])
    => 1 \in DOMAIN cacheCalls

\* the operation of this step is the registration of a bound method that
\* has an entry for the same target and bind type, override being disabled
SecondBind ==
    /\ registry'.ops = registry.ops + 1
    /\ registry'.op[1] = "bind"
    /\ ~registry.defaultAllowOverride
    /\ EntryOf(registry.binds[registry'.op[3]][registry'.op[2]],
               registry'.op[4]) # 0

\* the operation of this step is the registration of a cache rule for a
\* method that has one, override being disabled
SecondCache ==
    /\ registry'.ops = registry.ops + 1
    /\ registry'.op[1] = "cache"
    /\ ~registry.defaultAllowOverride
    /\ defined(registry.caches[registry'.op[2]])

\* C17: with override disabled, registering the same bound method against
\* the same target and relation a second time throws and changes neither
\* the binding registry nor the extension lists of the target; the same
\* holds of a second cache rule for one method
DuplicateThrows ==
    [][ /\ SecondBind =>
            /\ registry'.threw
            /\ registry'.binds = registry.binds
            /\ meta' = meta
        /\ SecondCache =>
            /\ registry'.threw
            /\ registry'.caches = registry.caches
            /\ meta' = meta ]_vars

\* a second registration of an extension that is on the list of T has
\* thrown
DuplicateThrowsWitness ==
    /\ registry.threw
    /\ registry.op = <<"bind", "before", "T", "E1">>
    /\ ~registry.defaultAllowOverride
    /\ meta["T"] # Undefined
    /\ meta["T"].bind.before = <<"E1">>
    /\ defined(registry.caches["T"])

\* no method occurs twice in list
Once(list) == \A i, j \in DOMAIN list: list[i] = list[j] => i = j

\* C18: with override enabled, binding the same extension to the same
\* target and relation twice is idempotent: the extension list of the
\* target holds it once and a call runs it once
RebindIsIdempotent ==
    \A bindType \in {"before", "after"}:
        /\ meta["T"] # Undefined => Once(meta["T"].bind[bindType])
        /\ calls # <<>> => Once(Started(1, bindType))

\* list holds its methods in the order of their registration: the order of
\* their entries in the registry, to which every registration that does not
\* override adds its entry last
InOrder(list, entries) ==
    \A i, j \in DOMAIN list:
        /\ EntryOf(entries, list[i]) # 0
        /\ i < j => EntryOf(entries, list[i]) < EntryOf(entries, list[j])

\* C19: within one relation type the extensions are started in the order
\* of their registration, whether they were registered before the target
\* was defined or after (override never enabled)
StartedInOrder ==
    ~registry.overridden /\ calls # <<>> =>
        \A bindType \in {"before", "after"}:
            InOrder(Started(1, bindType), Entries(bindType))

\* the first call has started two extensions, of which the first was
\* registered before T was defined and the second after
StartedInOrderWitness ==
    /\ ~registry.overridden
    /\ calls # <<>>
    /\ Len(Started(1, "before")) = 2
    /\ <<"before", "T", Started(1, "before")[1]>> \in registry.queued
    /\ <<"before", "T", Started(1, "before")[2]>> \notin registry.queued

-----------------------------------------------------------------------------
(* Properties of sibling extensions *)

\* call j settled before call k
SettledBefore(j, k) ==
    \E p, q \in DOMAIN order.seq:
        p < q /\ order.seq[p] = j /\ order.seq[q] = k

\* C20: whatever the order in which the sibling extensions of a call
\* complete, the args merged from its before extensions and the result
\* merged from its with and after extensions are the folds of the same
\* results in the order of registration
MergeInRegistrationOrder ==
    \A c \in Ids(calls):
        LET befores == KidsOf(c, "before")
            withs == KidsOf(c, "with")
            afters == KidsOf(c, "after")
        IN  /\ calls[c].impl # "none" =>
                calls[c].implArgs = BeforeFold(c, Len(befores))
            /\ calls[c].pc = "after" =>
                calls[c].res = ResultFold(calls[c].implRes, withs, Len(withs))
            /\ calls[c].out = "resolved" =>
                calls[c].outVal =
                    ResultFold(ResultFold(calls[c].implRes, withs, Len(withs)),
                               afters, Len(afters))

\* two siblings resolved with mappings that disagree on a key, the one
\* registered last completed first, and the merged value has its value
MergeInRegistrationOrderWitness ==
    /\ calls # <<>>
    /\ \E bindType \in {"before", "with", "after"}:
        LET kids == KidsOf(1, bindType)
        IN  /\ Len(kids) = 2
            /\ SettledBefore(kids[2], kids[1])
            /\ calls[kids[1]].outVal = Other
            /\ calls[kids[2]].outVal = Payload
            /\ IF bindType = "before"
               THEN /\ calls[1].impl # "none"
                    /\ Get(calls[1].implArgs, "foo") = Scalar("a")
               ELSE /\ calls[1].implRes = Undefined
                    /\ calls[1].out = "resolved"
                    /\ Get(calls[1].outVal, "foo") = Scalar("a")

-----------------------------------------------------------------------------
(* Properties of the with and after extensions *)

\* C23: the with extensions of a call are started with the args its
\* implementation is invoked with, they are all started by the time the
\* implementation runs, and the call does not resolve before every one of
\* them has resolved
WithRunsAlongside ==
    \A c \in Ids(calls):
        LET withs == KidsOf(c, "with")
        IN  /\ calls[c].impl # "none" =>
                /\ Started(c, "with") = meta[calls[c].method].bind.with
                /\ \A i \in DOMAIN withs:
                        calls[withs[i]].passedArgs = calls[c].implArgs
            /\ calls[c].out = "resolved" =>
                \A i \in DOMAIN withs: calls[withs[i]].out = "resolved"

\* the implementation of a call is running while one of its two with
\* extensions has resolved and the other has not
WithRunsAlongsideWitness ==
    \E c \in Ids(calls):
        LET withs == KidsOf(c, "with")
        IN  /\ Len(withs) = 2
            /\ calls[c].impl = "pending"
            /\ IsMapping(calls[c].implArgs)
            /\ calls[withs[1]].out = "pending"
            /\ calls[withs[2]].out = "resolved"

\* the with and after extension calls of call c that have rejected
RejectedAfterInvoke(c) ==
    {k \in Range(KidsOf(c, "with")) \cup Range(KidsOf(c, "after")):
        calls[k].out = "rejected"}

\* C24: a call whose implementation has resolved and one of whose with or
\* after extensions has rejected does not resolve: it settles rejected, with
\* the error of such an extension
ExtensionRejectionRejects ==
    \A c \in Ids(calls):
        /\ calls[c].impl = "resolved"
        /\ calls[c].out # "pending"
        /\ RejectedAfterInvoke(c) # {}
        => /\ calls[c].out = "rejected"
           /\ \E k \in RejectedAfterInvoke(c): calls[c].outVal = calls[k].outVal

\* the implementation of a call resolved with a value, one of its after
\* extensions rejected and the call has rejected with the error of that one
ExtensionRejectionRejectsWitness ==
    \E c \in Ids(calls):
        \E k \in Range(KidsOf(c, "after")):
            /\ calls[c].impl = "resolved"
            /\ calls[c].implRes = Payload
            /\ calls[k].out = "rejected"
            /\ calls[c].out = "rejected"
            /\ calls[c].outVal = calls[k].outVal

\* an invocation of the implementation of call c has rejected or thrown: the
\* last one, or the first of the two of a call on the cached path
ImplFailed(c) ==
    \/ calls[c].impl \in {"rejected", "thrown"}
    \/ c \in DOMAIN cacheCalls /\ cacheCalls[c].invoked > 1

\* C25: when the implementation of a call rejects or throws, no after and
\* no afterDetach extension is called for that call, and the call rejects
\* with the error of the implementation
ImplErrorSkipsAfter ==
    \A c \in Ids(calls):
        ImplFailed(c) =>
            /\ KidsOf(c, "after") = <<>>
            /\ KidsOf(c, "afterDetach") = <<>>
            /\ calls[c].out # "pending" =>
                /\ calls[c].out = "rejected"
                /\ calls[c].outVal \in {Error("rejected", c), Error("thrown", c)}

-----------------------------------------------------------------------------
(* Properties of the cache key *)

\* what of the args of call c the rule of its method selects for the key:
\* the args its keyParams name or, without keyParams, all but the session
Selected(c) ==
    LET keyParams == meta[calls[c].method].cache.keyParams
        passed == calls[c].passedArgs.f
        names == IF keyParams = Undefined THEN DOMAIN passed \ {"session"}
                 ELSE DOMAIN passed \cap Range(keyParams.a)
    IN  [k \in names |-> passed[k]]

\* C28: two calls use the same cache key exactly when they are calls of the
\* same method whose selected args are equal, whatever their sessions and
\* their other args
KeyOfSelectedArgs ==
    \A c, d \in DOMAIN cacheCalls:
        cacheCalls[c].key = cacheCalls[d].key
            <=> /\ calls[c].method = calls[d].method
                /\ Selected(c) = Selected(d)

\* two calls with different sessions and, under keyParams, a different bar
\* use one key, and so do their sessions differ as the wrapper stamps them
KeyOfSelectedArgsWitness ==
    /\ Len(calls) = 2
    /\ cacheCalls[1].key = cacheCalls[2].key
    /\ cacheCalls[1].session # cacheCalls[2].session
    /\ Get(calls[1].passedArgs, "session") # Get(calls[2].passedArgs, "session")
    /\ Get(calls[1].passedArgs, "bar") # Get(calls[2].passedArgs, "bar")

-----------------------------------------------------------------------------
(* Properties of logging *)

\* the places in the log of the events of a type that carry the id of call c
Events(type, c) ==
    {i \in DOMAIN log: log[i].type = type /\ log[i].moduleCallId = Id(c)}

\* call c is logged: its method has a logClient and the session it was made
\* with does not disable logging
Logged(c) ==
    /\ defined(meta[calls[c].method].logClient)
    /\ ~Truthy(Get(Get(calls[c].passedArgs, "session"), "noLogging"))

SettledCallLogged ==
    \A c \in Ids(calls):
        Events("moduleCall", c) # {} /\ calls[c].out # "pending" =>
            /\ Cardinality(Events("moduleCallResolve", c)) = 1
            /\ \A i \in Events("moduleCallResolve", c):
                    log[i].resolved = IF calls[c].out = "resolved" THEN 1 ELSE 0


-----------------------------------------------------------------------------
(* Validation *)

\* return validation is enabled for the method of the only definition made:
\* the option of the definition, else the option of the module, else the
\* global default
ReturnValidationEnabled ==
    LET o == registry.op
    IN  Truthy(IF defined(o.method.validateReturn) THEN o.method.validateReturn
               ELSE IF defined(o.module.validateReturn) THEN o.module.validateReturn
               ELSE o.defaults.validateReturn)

\* C29: the result of a method with a return schema is validated exactly
\* when return validation is enabled, whatever the setting of argument
\* validation: the call rejects with the validation error if and only if
\* validation is enabled and the result does not match the schema
ReturnValidatedWhenEnabled ==
    \A c \in Ids(calls):
        /\ calls[c].impl = "resolved"
        /\ defined(meta[calls[c].method].schema.return)
        => ( /\ calls[c].out = "rejected"
             /\ calls[c].outVal = Error("invalid return", c) )
           <=> ( /\ ReturnValidationEnabled
                 /\ ~ajvValidate(meta[calls[c].method].schema.return,
                                 calls[c].implRes) )

\* call c failed at call time: the wrapper did not accept the call, the
\* args do not match the schema, the implementation threw or its result
\* does not match the schema, an awaited extension threw
Failed(c) ==
    LET mm == meta[calls[c].method]
    IN  \/ calls[c].pc = "done" /\ calls[c].ctxArgs = Undefined
        \/ /\ calls[c].pc = "done" /\ calls[c].ctxArgs # Undefined
           /\ calls[c].impl = "none"
           /\ allResolved(calls, KidsOf(c, "before"))
           /\ ~validateArgs(calls[c].args, mm)
        \/ calls[c].impl = "thrown"
        \/ /\ calls[c].impl = "resolved"
           /\ validatesReturn(mm) /\ ~validateReturn(calls[c].implRes, mm)
        \/ /\ calls[c].pc = "done"
           /\ \E k \in Range(KidsOf(c, "before")): calls[k].impl = "thrown"

-----------------------------------------------------------------------------
(* Redefinition and reset *)

\* the operation of the step has left the registry and the methods as
\* they were
Untouched ==
    /\ meta' = meta
    /\ registry' = [registry EXCEPT !.ops = registry'.ops, !.op = registry'.op,
                                    !.threw = registry'.threw]

\* the step defines method m, which is defined already
RedefinesMethod(m) ==
    /\ registry'.ops = registry.ops + 1
    /\ registry'.op[1] = "method" /\ registry'.op[2] = m
    /\ meta[m] # Undefined

\* the step defines module name, which is defined already
RedefinesModule(name) ==
    /\ registry'.ops = registry.ops + 1
    /\ registry'.op[1] = "module" /\ registry'.op[2] = name
    /\ name \in DOMAIN registry.modules

\* the step defines function f, which is defined already
RedefinesFunction(f) ==
    /\ registry'.ops = registry.ops + 1
    /\ registry'.op[1] = "function" /\ registry'.op[2] = f
    /\ defined(registry.functions[f])

\* C26: defining a module, a method or a function under a name that is
\* defined already throws and leaves everything as it was, unless an
\* override flag is set (the global one, the one of the module or the one
\* given with the definition): then the operation succeeds and the name
\* is looked up as the new definition
RedefinitionNeedsOverride ==
    [][ /\ \A m \in Methods: RedefinesMethod(m) =>
            IF \/ registry.defaultAllowOverride
               \/ registry.modules[ModuleOf(m)].allowOverride
               \/ Truthy(registry'.op[4])
            THEN ~registry'.threw /\ meta'[m] # Undefined
                 /\ meta'[m].method = registry'.op[3]
            ELSE registry'.threw /\ Untouched
        /\ \A name \in {"A", "B"}: RedefinesModule(name) =>
            IF registry.defaultAllowOverride \/ Truthy(registry'.op[4])
            THEN /\ ~registry'.threw
                 /\ name \in DOMAIN registry'.modules
                 /\ \A m \in MethodsOf(name):
                        IF m \in DOMAIN registry'.op[3]
                        THEN meta'[m] # Undefined
                             /\ meta'[m].method = registry'.op[3][m]
                        ELSE meta'[m] = Undefined
            ELSE registry'.threw /\ Untouched
        /\ \A f \in Functions: RedefinesFunction(f) =>
            IF registry.defaultAllowOverride \/ Truthy(registry'.op[4])
            THEN /\ ~registry'.threw
                 /\ registry'.functions[f].functionObj = registry'.op[3]
            ELSE registry'.threw /\ Untouched
      ]_vars

\* a registration that the last reset cleared and that has not been made
\* again has no effect on the methods defined since
ClearedHasNoEffect ==
    /\ \A bindType \in bindTypes, m \in Methods, bindMethod \in Methods:
            /\ <<"bind", bindType, m, bindMethod>> \in registry.cleared
            /\ EntryOf(registry.binds[m][bindType], bindMethod) = 0
            /\ meta[m] # Undefined
            => \A i \in DOMAIN meta[m].bind[bindType]:
                    meta[m].bind[bindType][i] # bindMethod
    /\ \A m \in Methods:
            /\ <<"cache", m>> \in registry.cleared
            /\ ~defined(registry.caches[m])
            /\ meta[m] # Undefined
            => ~defined(meta[m].cache)

\* the step is a reset: it leaves the registries empty and the global
\* option at its default
ResetEmpties ==
    registry'.ops = registry.ops + 1 /\ registry'.op = <<"reset">>
    => /\ registry'.modules = <<>>
       /\ \A f \in Functions: ~defined(registry'.functions[f])
       /\ \A m \in Methods:
            /\ meta'[m] = Undefined
            /\ registry'.binds[m] = NoBinds
            /\ ~defined(registry'.caches[m])
       /\ ~registry'.defaultAllowOverride
       /\ ~registry'.threw

\* the step registers again, for the first time since the reset, a binding
\* (of a method that is defined) or a cache rule that the reset cleared:
\* it does not throw
ReregistrationSucceeds ==
    /\ registry'.ops = registry.ops + 1
    /\ registry'.op \in registry.cleared
    /\ \/ /\ registry'.op[1] = "bind"
           /\ meta[registry'.op[4]] # Undefined
           /\ EntryOf(registry.binds[registry'.op[3]][registry'.op[2]],
                      registry'.op[4]) = 0
        \/ /\ registry'.op[1] = "cache"
           /\ ~defined(registry.caches[registry'.op[2]])
    => ~registry'.threw

\* C27: after reset the module, function, binding and cache-rule
\* registries are empty and the global option has its default; a binding
\* or a cache rule registered before the reset has no effect on a method
\* defined after it, and registering it again does not throw
ResetClears ==
    /\ []ClearedHasNoEffect
    /\ [][ResetEmpties /\ ReregistrationSucceeds]_vars

\* a binding that was cleared by a reset is registered again, and the
\* target defined after the reset has it
ResetClearsWitness ==
    /\ registry.op = <<"bind", "before", "T", "E1">>
    /\ registry.op \in registry.cleared
    /\ ~registry.threw


-----------------------------------------------------------------------------
(* Invocations of the implementation *)

\* C34: the implementation of a call is invoked at most once, on the
\* direct path and on the cached path, whatever cacheClient.get and the
\* implementation do
InvokedAtMostOnce ==
    \A c \in DOMAIN cacheCalls: cacheCalls[c].invoked <= 1


-----------------------------------------------------------------------------
(* After and afterDetach *)

\* C31: an extension bound afterDetach to a target is called with the
\* same args as it is when bound after the target, whatever the target
\* resolves with and wherever the target is in an after chain
AfterDetachArgsAsAfter ==
    \A c \in Ids(calls):
        \A a \in Range(KidsOf(c, "after")), d \in Range(KidsOf(c, "afterDetach")):
            calls[a].method = calls[d].method
            => calls[a].passedArgs = calls[d].passedArgs


-----------------------------------------------------------------------------
(* Freezing *)

\* freezing is enabled for T, the method of the only definition made: the
\* option of the definition, else the option of the module, else the
\* global default
FreezeEnabled ==
    LET o == registry.op
    IN  Truthy(IF defined(o.method.freeze) THEN o.method.freeze
               ELSE IF defined(o.module.freeze) THEN o.module.freeze
               ELSE o.defaults.freeze)

\* C32: with freezing enabled for a method every object of the args its
\* implementation is given is frozen; the objects of the args of the
\* caller and of the value the call resolves with are not; with freezing
\* disabled no object of the args of the implementation is frozen
ImplArgsFrozen ==
    \A c \in Ids(calls):
        /\ calls[c].method = "T" /\ calls[c].impl # "none" =>
            IF FreezeEnabled
            THEN calls[c].implObjects # {}
                 /\ calls[c].implObjects \subseteq calls[c].frozen
            ELSE calls[c].implObjects \cap calls[c].frozen = {}
        /\ "passed" \notin calls[c].frozen
        /\ calls[c].impl = "resolved"
            => calls[c].resObjects # {}
               /\ calls[c].resObjects \cap calls[c].frozen = {}

\* with freezing enabled T has resolved with a part of its args
ImplArgsFrozenWitness ==
    /\ Len(calls) >= 1
    /\ FreezeEnabled
    /\ calls[1].out = "resolved"
    /\ calls[1].implRes = Obj([session |-> Get(calls[1].implArgs, "session")])
    /\ calls[1].frozen = {"implArgs"}
    /\ calls[1].resObjects = {"res"}


-----------------------------------------------------------------------------
(* Names *)

\* a valid name: a string that is not empty, has no dot and is no reserved
\* word
ValidName(name) ==
    /\ name.t = "string"
    /\ name.s # <<>>
    /\ "." \notin Range(name.s)
    /\ name.s \notin reservedNames

\* the characters of signature before its only dot and those after it,
\* <<>> if there is not exactly one dot
TwoParts(s) ==
    LET dots == {i \in DOMAIN s: s[i] = "."}
    IN  IF Cardinality(dots) # 1 THEN <<>>
        ELSE LET i == CHOOSE j \in dots: TRUE
             IN  <<SubSeq(s, 1, i - 1), SubSeq(s, i + 1, Len(s))>>

\* C33: no module and no method is registered under an invalid name, and a
\* method signature is accepted only if it is a string of exactly two
\* parts, separated by a dot, that are valid names
NamesValid ==
    /\ \A name \in DOMAIN registry.modules:
            /\ ValidName(name)
            /\ \A methodName \in registry.modules[name].methods:
                    ValidName(methodName)
    /\ registry.ops > 0 /\ registry.op[1] = "method" /\ ~registry.threw
        => /\ registry.op[2].t = "string"
           /\ TwoParts(registry.op[2].s) # <<>>
           /\ ValidName(Str(TwoParts(registry.op[2].s)[1]))
           /\ ValidName(Str(TwoParts(registry.op[2].s)[2]))

\* a method is defined by signature in a module, after a definition under
\* a name with a dot was tried on the way
NamesValidWitness ==
    /\ registry.ops = 2
    /\ registry.op = <<"method", Str(<<"a", ".", "a", "a">>)>>
    /\ ~registry.threw
    /\ registry.modules[Str(<<"a">>)].methods = {Str(<<"a", "a">>)}


-----------------------------------------------------------------------------
(* Bindings applied once *)

\* how many times method occurs in list
Count(list, method) == Cardinality({i \in DOMAIN list: list[i] = method})

\* the binding of bindMethod to T is applied: its entry is marked bound
Applied(bindType, bindMethod) ==
    LET entries == registry.binds["T"][bindType]
        i == EntryOf(entries, bindMethod)
    IN  i # 0 /\ entries[i].bound

\* C35: a registered binding is applied exactly once: once its entry is
\* marked bound, no later apply pass (a later binding to the signature, a
\* definition of the method) appends the extension to the list again
BindingAppliedOnce ==
    [][\A bindType \in bindTypes, bindMethod \in Methods:
            /\ Applied(bindType, bindMethod)
            /\ meta["T"] # Undefined /\ meta'["T"] # Undefined
            => Count(meta'["T"].bind[bindType], bindMethod)
                    <= Count(meta["T"].bind[bindType], bindMethod)]_vars


\* C36: every binding marked bound whose target is defined is in the
\* current extension list of the target: a binding that has been applied
\* stays active when the target or its module is defined again
BoundIsListed ==
    \A bindType \in bindTypes, bindMethod \in Methods:
        Applied(bindType, bindMethod) /\ hasMethod(State(registry, meta), "T")
        => bindMethod \in Range(meta["T"].bind[bindType])


-----------------------------------------------------------------------------
(* Failure atomicity *)

\* C37: a registration operation that throws leaves the registries of the
\* modules, the bindings and the cache rules, and the meta data of every
\* method, as they were before it
ThrowLeavesNoTrace ==
    [][registry'.ops # registry.ops /\ registry'.threw
            => /\ registry'.modules = registry.modules
               /\ registry'.binds = registry.binds
               /\ registry'.caches = registry.caches
               /\ meta' = meta]_vars


-----------------------------------------------------------------------------
(* The session fields of the pipeline *)

\* C38: the stack, the moduleCallId and the moduleCallSignature the
\* implementation of a call observes are those of the context of the call,
\* and every moduleCallResolve event carries the moduleCallId of the call
\* that has settled with its value, whatever the before extensions of the
\* call resolve with
SessionFieldsStamped ==
    /\ \A c \in Ids(calls):
            calls[c].impl # "none" =>
                LET session == Get(calls[c].implArgs, "session")
                IN  /\ Get(session, "moduleCallId") = Id(c)
                    /\ Get(session, "moduleCallSignature") = Sig(calls[c].method)
                    /\ StackOf(calls[c].implArgs) = StackOf(calls[c].ctxArgs)
    /\ \A i \in DOMAIN log:
            log[i].type = "moduleCallResolve" =>
                \E c \in Ids(calls):
                    /\ log[i].moduleCallId = Id(c)
                    /\ Events("moduleCallResolve", c) = {i}
                    /\ calls[c].out # "pending"
                    /\ log[i].moduleCallResolveData = calls[c].outVal


-----------------------------------------------------------------------------
(* The value a validated call resolves with *)

\* C39: when a call of a method with a return schema and return validation
\* enabled resolves, the value it resolves with matches the schema, on the
\* direct path and on the cached path, after the results of the with and
\* after extensions are merged
ResolvedValueValid ==
    \A c \in Ids(calls):
        LET mm == meta[calls[c].method]
        IN  /\ defined(mm.schema.return)
            /\ Truthy(mm.validateReturn)
            /\ calls[c].out = "resolved"
            => ajvValidate(mm.schema.return, calls[c].outVal)


-----------------------------------------------------------------------------
(* The effective options of a method *)

\* the value of an option for the definition last made: the one given to
\* the definition, else the one given to the module, else the default
EffectiveOption(optionName, defaults) ==
    IF defined(registry.defined.given[optionName])
    THEN registry.defined.given[optionName]
    ELSE IF defined(registry.created.given[optionName])
    THEN registry.created.given[optionName]
    ELSE defaults[optionName]

\* the definition of T last made went by the options, with `defaults` for
\* the global defaults: it threw if and only if T was defined and
\* allowOverride is off, and the method has the options
DefinedWith(defaults) ==
    registry.ops > 0 /\ registry.op[1] = "method"
    => /\ registry.threw
            <=> /\ registry.defined.existed
                /\ ~Truthy(EffectiveOption("allowOverride", defaults))
       /\ ~registry.threw
            => \A optionName \in optionNames \ {"allowOverride"}:
                    Truthy(meta["T"][optionName])
                        = Truthy(EffectiveOption(optionName, defaults))

\* C40 as stated: the value of an option of a method is the one given to
\* the definition, else the one given to the module, else the global
\* default at the time of the definition
OptionsFollowDefaults == DefinedWith(registry.defined.defaults)

\* C40: the value of an option of a method is the one given to the
\* definition, else the one given to the module, else the global default at
\* the time the module was created
OptionsResolved == DefinedWith(registry.created.defaults)

\* freeze is given neither to the module nor to the definition and its
\* default was changed after the module was created: the method is defined
\* with the default the module was created under
OptionsResolvedWitness ==
    /\ registry.ops > 0 /\ registry.op[1] = "method" /\ ~registry.threw
    /\ ~defined(registry.defined.given.freeze)
    /\ ~defined(registry.created.given.freeze)
    /\ registry.created.defaults.freeze = True
    /\ registry.defaults.freeze = False
    /\ meta["T"].freeze = True

====
